---- MODULE Spec2Model ----
(***************************************************************************)
(* A model of the errors-go package: the error node model and its          *)
(* builders, the adapter registry, the introspection functions (Cause,     *)
(* Causes, Is, Types, Tags, inspect) and the snapshot codec (ValueOf,      *)
(* Value.Err).                                                             *)
(*                                                                         *)
(* Error values are pointers in the Go code.  The model keeps every        *)
(* constructed error in `heap`, a sequence of node records; an error       *)
(* value is an index into the heap and Nil is the nil error.  Pointer      *)
(* identity is index equality.                                             *)
(***************************************************************************)
EXTENDS Integers, Sequences, FiniteSets, TLC

VARIABLES
    heap,       \* every error node constructed so far, by address
    adapters,   \* adapterStore.adapters: the registered adapters, in order
    op,         \* name of the last operation that ran
    args,       \* the error arguments of the last operation
    ret,        \* the error the last operation returned
    calls,      \* the adapters the last operation invoked, in call order
    pc,         \* concurrent model: the position of each goroutine
    mutex,      \* concurrent model: adapterStore.mutex
    local,      \* concurrent model: each goroutine's local variables
    ch,         \* the channel given to Recv: its buffer and whether it is closed
    mem         \* the arrays behind the slices of the caller and of the nodes

vars == <<heap, adapters, op, args, ret, calls, pc, mutex, local, ch, mem>>

----------------------------------------------------------------------------
(* Bounds of the model *)

MaxNodes == 4       \* the heap holds at most this many nodes
MaxJoin == 2        \* Join is called with at most this many arguments
MaxRecv == 3        \* Recv receives at most this many values
MaxAdapters == 2    \* at most this many Register calls append

Nil == 0

----------------------------------------------------------------------------
(* Strings.  sort.Strings and tagsByNameAndValue compare strings bytewise;  *)
(* StringOrder lists the strings the model sorts in that order.             *)

StringOrder == <<"1", "2", "Temporary", "Timeout", "Validation", "x", "y">>

StringRank(s) == CHOOSE i \in 1..Len(StringOrder) : StringOrder[i] = s

StringLess(a, b) == StringRank(a) < StringRank(b)

Range(s) == {s[i] : i \in 1..Len(s)}

RECURSIVE stringsJoin(_, _)
stringsJoin(elems, sep) ==
    IF Len(elems) = 0 THEN ""
    ELSE IF Len(elems) = 1 THEN elems[1]
    ELSE elems[1] \o sep \o stringsJoin(Tail(elems), sep)

----------------------------------------------------------------------------
(* The node variants *)

InternalKinds ==
    {"baseError", "multiError", "errorWithMessage", "errorWithStack",
     "errorWithTypes", "errorWithTags", "errorTODO", "errorValue"}

\* A node with every field at its zero value; the constructors override
\* the fields their variant has.
ZeroNode ==
    [kind |-> "", msg |-> "", cause |-> Nil, causes |-> <<>>, types |-> <<>>,
     tags |-> <<>>, stack |-> <<>>, hasCause |-> FALSE,
     predTrue |-> {}, predFalse |-> {}]

T(name, value) == [Name |-> name, Value |-> value]

CaptureStackTrace == <<"frame">>

baseError(msg, stack) ==
    [ZeroNode EXCEPT !.kind = "baseError", !.msg = msg, !.stack = stack]

multiError(errors) ==
    [ZeroNode EXCEPT !.kind = "multiError", !.causes = errors]

errorWithMessage(cause, msg) ==
    [ZeroNode EXCEPT !.kind = "errorWithMessage", !.cause = cause, !.msg = msg]

errorWithStack(cause, stack) ==
    [ZeroNode EXCEPT !.kind = "errorWithStack", !.cause = cause, !.stack = stack]

errorWithTypes(cause, types) ==
    [ZeroNode EXCEPT !.kind = "errorWithTypes", !.cause = cause, !.types = types]

errorWithTags(cause, tags) ==
    [ZeroNode EXCEPT !.kind = "errorWithTags", !.cause = cause, !.tags = tags]

errorTODO == [ZeroNode EXCEPT !.kind = "errorTODO"]

errorValue(msg, causes, types, tags, stack) ==
    [ZeroNode EXCEPT !.kind = "errorValue", !.msg = msg, !.causes = causes,
                     !.types = types, !.tags = tags, !.stack = stack]

\* Error types defined outside the package.  kind is the Go type; msg is the
\* text the type's Error method puts before its cause's text; hasCause says
\* the type has a Cause method; predTrue and predFalse are the names of its
\* zero-argument boolean methods, by the value they return.
timeout ==
    [ZeroNode EXCEPT !.kind = "timeout", !.msg = "timeout",
                     !.predTrue = {"Temporary", "Timeout"}]

adaptableError ==
    [ZeroNode EXCEPT !.kind = "adaptableError", !.msg = "something went wrong"]

errorWithNilCause ==
    [ZeroNode EXCEPT !.kind = "errorWithNilCause", !.hasCause = TRUE]

adapterError(cause) ==
    [ZeroNode EXCEPT !.kind = "adapterError", !.msg = "adapted: ",
                     !.hasCause = TRUE, !.cause = cause]

validation(cause) ==
    [ZeroNode EXCEPT !.kind = "validation", !.hasCause = TRUE, !.cause = cause,
                     !.predTrue = {"Validation"}]

\* A wrapper whose classification methods answer from its own code, not
\* from its cause: Temporary() is true and Timeout() is false whatever it wraps.
twirpError(cause) ==
    [ZeroNode EXCEPT !.kind = "twirpError", !.hasCause = TRUE, !.cause = cause,
                     !.predTrue = {"Temporary"}, !.predFalse = {"Timeout"}]

----------------------------------------------------------------------------
(* The capability interfaces, decided by the dynamic type of the node *)

errorCause(n) ==
    n.kind \in {"errorWithMessage", "errorWithStack", "errorWithTypes",
                "errorWithTags"} \/ n.hasCause

errorCauses(n) == n.kind \in {"multiError", "errorValue"}

errorMessage(n) == n.kind \in {"baseError", "errorWithMessage", "errorValue"}

errorTypes(n) == n.kind \in {"errorWithTypes", "errorValue"}

errorTags(n) == n.kind \in {"errorWithTags", "errorValue"}

errorStackTrace(n) == n.kind \in {"baseError", "errorWithStack", "errorValue"}

message(n) == IF errorMessage(n) THEN n.msg ELSE ""

stackTrace(n) == IF errorStackTrace(n) THEN n.stack ELSE <<>>

\* The Error method of each variant.
RECURSIVE Error(_, _)
Error(h, e) ==
    LET n == h[e]
        RECURSIVE each(_)
        each(es) == IF es = <<>> THEN <<>>
                    ELSE <<Error(h, es[1])>> \o each(Tail(es))
    IN  CASE n.kind = "baseError" -> n.msg
          [] n.kind = "multiError" -> stringsJoin(each(n.causes), "; ")
          [] n.kind = "errorWithMessage" -> n.msg \o ": " \o Error(h, n.cause)
          [] n.kind \in {"errorWithStack", "errorWithTypes", "errorWithTags"} ->
                Error(h, n.cause)
          [] n.kind = "errorTODO" -> "TODO"
          [] n.kind = "errorValue" -> n.msg
          [] OTHER -> IF n.hasCause /\ n.cause # Nil
                      THEN n.msg \o Error(h, n.cause)
                      ELSE n.msg

----------------------------------------------------------------------------
(* Cause, Causes and the walkers *)

\* Cause as it would be if it followed one link only.
CauseOfOneLink(h, err) ==
    IF err # Nil /\ errorCause(h[err]) /\ h[err].cause # Nil
    THEN h[err].cause
    ELSE err

RECURSIVE Cause(_, _)
Cause(h, err) ==
    IF err # Nil /\ errorCause(h[err]) /\ h[err].cause # Nil
    THEN Cause(h, h[err].cause)
    ELSE err

\* Causes as it would be if a nil cause ended the walk with no causes.
RECURSIVE causesFromUntilNil(_, _, _)
causesFromUntilNil(h, original, err) ==
    IF err # Nil /\ errorCauses(h[err]) THEN h[err].causes
    ELSE IF err # Nil /\ errorCause(h[err])
         THEN IF h[err].cause # Nil
              THEN causesFromUntilNil(h, original, h[err].cause)
              ELSE <<>>
    ELSE IF err # original THEN <<err>>
    ELSE <<>>

RECURSIVE causesFrom(_, _, _)
causesFrom(h, original, err) ==
    IF err # Nil /\ errorCauses(h[err]) THEN h[err].causes
    ELSE IF err # Nil /\ errorCause(h[err]) /\ h[err].cause # Nil
         THEN causesFrom(h, original, h[err].cause)
    ELSE IF err # original THEN <<err>>
    ELSE <<>>

Causes(h, err) == causesFrom(h, err, err)

\* walk calls do on every node of the graph; the model returns the nodes in
\* the order walk visits them.
RECURSIVE walk(_, _)
walk(h, err) ==
    LET RECURSIVE each(_)
        each(es) == IF es = <<>> THEN <<>> ELSE walk(h, es[1]) \o each(Tail(es))
    IN  IF err = Nil THEN <<>>
        ELSE <<err>> \o
             (IF errorCause(h[err]) THEN walk(h, h[err].cause)
              ELSE IF errorCauses(h[err]) THEN each(h[err].causes)
              ELSE <<>>)

----------------------------------------------------------------------------
(* Types *)

RECURSIVE insertString(_, _)
insertString(sorted, s) ==
    IF sorted = <<>> THEN <<s>>
    ELSE IF StringLess(s, sorted[1]) THEN <<s>> \o sorted
    ELSE <<sorted[1]>> \o insertString(Tail(sorted), s)

RECURSIVE sortTypes(_)
sortTypes(types) ==
    IF types = <<>> THEN <<>>
    ELSE insertString(sortTypes(Tail(types)), types[1])

\* The loop of dedupeTypes over a sorted list: keep an entry when it differs
\* from the previous one.
RECURSIVE dropRepeats(_)
dropRepeats(sorted) ==
    IF Len(sorted) <= 1 THEN sorted
    ELSE IF sorted[1] = sorted[2] THEN dropRepeats(Tail(sorted))
    ELSE <<sorted[1]>> \o dropRepeats(Tail(sorted))

\* dedupeTypes as it would be if it sorted the list and kept the repeats.
dedupeTypesKeepingRepeats(types) == sortTypes(types)

dedupeTypes(types) ==
    IF Len(types) = 0 THEN <<>> ELSE dropRepeats(sortTypes(types))

copyTypes(types) == IF Len(types) = 0 THEN <<>> ELSE types

\* The methods reflection finds on a node that take no argument, return a
\* boolean and return true, in the order of reflect's method table (by name).
trueMethods(n) ==
    sortTypes(CHOOSE s \in [1..Cardinality(n.predTrue) -> n.predTrue] :
                  Range(s) = n.predTrue)

appendTypes(types, n) ==
    (IF errorTypes(n) THEN types \o n.types ELSE types) \o trueMethods(n)

RECURSIVE appendTypesOfAll(_, _, _)
appendTypesOfAll(types, h, visited) ==
    IF visited = <<>> THEN types
    ELSE appendTypesOfAll(appendTypes(types, h[visited[1]]), h, Tail(visited))

deepAppendTypes(types, h, err) ==
    dedupeTypes(appendTypesOfAll(types, h, walk(h, err)))

Types(h, err) == deepAppendTypes(<<>>, h, err)

\* Is as it would be if a method that returns false did not end the search.
RECURSIVE IsUnlessFalse(_, _, _)
IsUnlessFalse(typ, h, err) ==
    IF err = Nil THEN FALSE
    ELSE LET n == h[err] IN
         IF errorTypes(n) /\ typ \in Range(n.types) THEN TRUE
         ELSE IF typ \in n.predTrue THEN TRUE
         ELSE IF errorCause(n) THEN IsUnlessFalse(typ, h, n.cause)
         ELSE IF errorCauses(n)
              THEN \E i \in 1..Len(n.causes) : IsUnlessFalse(typ, h, n.causes[i])
         ELSE FALSE

RECURSIVE Is(_, _, _)
Is(typ, h, err) ==
    IF err = Nil THEN FALSE
    ELSE LET n == h[err] IN
         IF errorTypes(n) /\ typ \in Range(n.types) THEN TRUE
         ELSE IF typ \in n.predTrue THEN TRUE
         ELSE IF typ \in n.predFalse THEN FALSE
         ELSE IF errorCause(n) THEN Is(typ, h, n.cause)
         ELSE IF errorCauses(n)
              THEN \E i \in 1..Len(n.causes) : Is(typ, h, n.causes[i])
         ELSE FALSE

----------------------------------------------------------------------------
(* Tags *)

tagLess(ti, tj) ==
    IF StringLess(ti.Name, tj.Name) THEN TRUE
    ELSE IF StringLess(tj.Name, ti.Name) THEN FALSE
    ELSE StringLess(ti.Value, tj.Value)

RECURSIVE insertTag(_, _)
insertTag(sorted, t) ==
    IF sorted = <<>> THEN <<t>>
    ELSE IF tagLess(t, sorted[1]) THEN <<t>> \o sorted
    ELSE <<sorted[1]>> \o insertTag(Tail(sorted), t)

RECURSIVE sortTags(_)
sortTags(tags) ==
    IF tags = <<>> THEN <<>>
    ELSE insertTag(sortTags(Tail(tags)), tags[1])

copyTags(tags) == tags

\* makeTags as it would be if it kept the first tag of each name only.
makeTagsOfFirst(tags) ==
    LET RECURSIVE firsts(_)
        firsts(n) ==
            IF n = 0 THEN <<>>
            ELSE IF \E j \in 1..(n - 1) : tags[j].Name = tags[n].Name
                 THEN firsts(n - 1)
                 ELSE Append(firsts(n - 1), tags[n])
    IN  sortTags(firsts(Len(tags)))

makeTags(tags) == sortTags(copyTags(tags))

\* A Go map from tag names to values is a function on the names it holds;
\* the nil map is the function with the empty domain.
NilMap == [name \in {} |-> ""]

RECURSIVE makeTagsMap(_)
makeTagsMap(tags) ==
    IF Len(tags) = 0 THEN NilMap
    ELSE LET m == makeTagsMap(SubSeq(tags, 1, Len(tags) - 1))
             t == tags[Len(tags)]
         IN  IF t.Name \in DOMAIN m THEN m
             ELSE [name \in DOMAIN m \cup {t.Name} |->
                      IF name = t.Name THEN t.Value ELSE m[name]]

makeTagsFromMap(m) ==
    IF DOMAIN m = {} THEN <<>>
    ELSE LET names == CHOOSE s \in [1..Cardinality(DOMAIN m) -> DOMAIN m] :
                          Range(s) = DOMAIN m
         IN  sortTags([i \in 1..Len(names) |-> T(names[i], m[names[i]])])

\* appendTags as it would be if it did not sort the list.
appendTagsUnsorted(tags, n) == IF errorTags(n) THEN tags \o n.tags ELSE tags

appendTags(tags, n) ==
    sortTags(IF errorTags(n) THEN tags \o n.tags ELSE tags)

RECURSIVE appendTagsOfAll(_, _, _)
appendTagsOfAll(tags, h, visited) ==
    IF visited = <<>> THEN tags
    ELSE appendTagsOfAll(appendTags(tags, h[visited[1]]), h, Tail(visited))

deepAppendTags(tags, h, err) == appendTagsOfAll(tags, h, walk(h, err))

Tags(h, err) == deepAppendTags(<<>>, h, err)

\* LookupTag as it would be if the innermost match won.
LookupTagInnermost(h, err, name) ==
    LET RECURSIVE lookup(_)
        lookup(tags) ==
            IF tags = <<>> THEN ""
            ELSE IF tags[1].Name = name THEN tags[1].Value
            ELSE lookup(Tail(tags))
        found == SelectSeq(walk(h, err),
                           LAMBDA e : errorTags(h[e])
                                      /\ \E t \in Range(h[e].tags) : t.Name = name)
    IN  IF found = <<>> THEN "" ELSE lookup(h[found[Len(found)]].tags)

\* LookupTag walks the causes from the outside in and returns the value of
\* the first tag bound to name that it meets, "" if it meets none.
LookupTag(h, err, name) ==
    LET RECURSIVE lookup(_)
        lookup(tags) ==
            IF tags = <<>> THEN ""
            ELSE IF tags[1].Name = name THEN tags[1].Value
            ELSE lookup(Tail(tags))
        found == SelectSeq(walk(h, err),
                           LAMBDA e : errorTags(h[e])
                                      /\ \E t \in Range(h[e].tags) : t.Name = name)
    IN  IF found = <<>> THEN "" ELSE lookup(h[found[1]].tags)

----------------------------------------------------------------------------
(* inspect and the snapshot codec *)

\* inspect as it would be without the case that keeps a node with a message
\* from being rendered through its Error method too.
RECURSIVE inspectLoopErrorToo(_, _, _)
inspectLoopErrorToo(h, err, acc) ==
    IF err = Nil THEN acc
    ELSE LET n == h[err]
             seen == [acc EXCEPT
                        !.types = appendTypes(@, n),
                        !.tags = appendTags(@, n),
                        !.msgs = IF message(n) # "" THEN Append(@, message(n))
                                 ELSE @,
                        !.stacks = IF Len(stackTrace(n)) # 0
                                   THEN Append(@, stackTrace(n)) ELSE @]
         IN  IF errorCauses(n) THEN [seen EXCEPT !.causes = n.causes]
             ELSE IF errorCause(n) THEN inspectLoopErrorToo(h, n.cause, seen)
             ELSE [seen EXCEPT !.msgs = Append(@, Error(h, err))]

RECURSIVE inspectLoop(_, _, _)
inspectLoop(h, err, acc) ==
    IF err = Nil THEN acc
    ELSE LET n == h[err]
             seen == [acc EXCEPT
                        !.types = appendTypes(@, n),
                        !.tags = appendTags(@, n),
                        !.msgs = IF message(n) # "" THEN Append(@, message(n))
                                 ELSE @,
                        !.stacks = IF Len(stackTrace(n)) # 0
                                   THEN Append(@, stackTrace(n)) ELSE @]
         IN  IF errorCauses(n) THEN [seen EXCEPT !.causes = n.causes]
             ELSE IF errorCause(n) THEN inspectLoop(h, n.cause, seen)
             ELSE IF errorMessage(n) THEN seen
             ELSE [seen EXCEPT !.msgs = Append(@, Error(h, err))]

inspect(h, err) ==
    LET r == inspectLoop(h, err, [msgs |-> <<>>, types |-> <<>>, tags |-> <<>>,
                                  stacks |-> <<>>, causes |-> <<>>])
    IN  [r EXCEPT !.types = dedupeTypes(@), !.tags = sortTags(@)]

\* The zero Value: nil slices and the nil map are the empty ones.
ZeroValue ==
    [Message |-> "", Tags |-> NilMap, Types |-> <<>>, Stack |-> <<>>,
     Causes |-> <<>>]

\* fmt.Sprintf("%+v:%n", frame, frame)
frameString(frame) == frame \o ":" \o "func"

RECURSIVE stackStrings(_, _)
stackStrings(stacks, i) ==
    IF i > Len(stacks) THEN <<>>
    ELSE (IF i # 1 THEN <<"">> ELSE <<>>)
         \o [k \in 1..Len(stacks[i]) |-> frameString(stacks[i][k])]
         \o stackStrings(stacks, i + 1)

RECURSIVE ValueOf(_, _)
ValueOf(h, err) ==
    IF err = Nil THEN ZeroValue
    ELSE LET r == inspect(h, err)
         IN  [Message |-> stringsJoin(r.msgs, ": "),
              Types |-> r.types,
              Tags |-> makeTagsMap(r.tags),
              Stack |-> IF Len(r.stacks) # 0 THEN stackStrings(r.stacks, 1)
                        ELSE <<>>,
              Causes |-> [i \in 1..Len(r.causes) |-> ValueOf(h, r.causes[i])]]

\* IsNil as it would be if it looked at the message alone.
IsNilOfMessage(v) == v.Message = ""

IsNil(v) ==
    v.Message = "" /\ DOMAIN v.Tags = {} /\ v.Types = <<>> /\ v.Stack = <<>>
    /\ v.Causes = <<>>

\* Value.Err as it would be if it left the types out of the node it builds.
RECURSIVE ValueErrWithoutTypes(_, _)
ValueErrWithoutTypes(h, v) ==
    LET RECURSIVE each(_, _)
        each(hh, vs) ==
            IF vs = <<>> THEN [h |-> hh, es |-> <<>>]
            ELSE LET first == ValueErrWithoutTypes(hh, vs[1])
                     rest == each(first.h, Tail(vs))
                 IN  [h |-> rest.h, es |-> <<first.e>> \o rest.es]
    IN  IF IsNil(v) THEN [h |-> h, e |-> Nil]
        ELSE LET kids == each(h, v.Causes)
                 e == errorValue(v.Message, kids.es, <<>>,
                                 makeTagsFromMap(v.Tags), CaptureStackTrace)
             IN  [h |-> Append(kids.h, e), e |-> Len(kids.h) + 1]

\* Value.Err: the nodes it allocates are appended to the heap h; the result
\* is the new heap and the address of the error it returns.
RECURSIVE ValueErr(_, _)
ValueErr(h, v) ==
    LET RECURSIVE each(_, _)
        each(hh, vs) ==
            IF vs = <<>> THEN [h |-> hh, es |-> <<>>]
            ELSE LET first == ValueErr(hh, vs[1])
                     rest == each(first.h, Tail(vs))
                 IN  [h |-> rest.h, es |-> <<first.e>> \o rest.es]
    IN  IF IsNil(v) THEN [h |-> h, e |-> Nil]
        ELSE LET kids == each(h, v.Causes)
                 e == errorValue(v.Message, kids.es, copyTypes(v.Types),
                                 makeTagsFromMap(v.Tags), CaptureStackTrace)
             IN  [h |-> Append(kids.h, e), e |-> Len(kids.h) + 1]

----------------------------------------------------------------------------
(* The adapter registry *)

\* The adapters a program may register: testAdapter wraps the adaptable
\* error in an adapterError; netAdapter wraps the errors it knows in a
\* validation error, and knows the adaptable error too.
AdapterSet == {"testAdapter", "netAdapter"}

recognizes(a, n) ==
    CASE a = "testAdapter" -> n.kind = "adaptableError"
      [] a = "netAdapter" -> n.kind \in {"adaptableError", "timeout"}
      [] OTHER -> FALSE

adapted(a, err) ==
    CASE a = "testAdapter" -> adapterError(err)
      [] a = "netAdapter" -> validation(err)

\* Adapter.Adapt of adapter a on err.
adapterAdapt(a, h, err) ==
    IF recognizes(a, h[err])
    THEN [h |-> Append(h, adapted(a, err)), e |-> Len(h) + 1, ok |-> TRUE]
    ELSE [h |-> h, e |-> err, ok |-> FALSE]

\* The scan of adapterStore.adapt from index i on.
RECURSIVE adaptScan(_, _, _, _)
adaptScan(h, store, err, i) ==
    IF i > Len(store) THEN [h |-> h, e |-> err, calls |-> <<>>]
    ELSE LET r == adapterAdapt(store[i], h, err)
         IN  IF r.ok THEN [h |-> r.h, e |-> r.e, calls |-> <<store[i]>>]
             ELSE LET rest == adaptScan(h, store, err, i + 1)
                  IN  [rest EXCEPT !.calls = <<store[i]>> \o @]

\* adapterStore.adapt as it would be if it scanned from the adapter that was
\* registered last.
storeAdaptLastFirst(h, store, err) ==
    LET reversed == [i \in 1..Len(store) |-> store[Len(store) + 1 - i]]
    IN  IF err # Nil THEN adaptScan(h, reversed, err, 1)
        ELSE [h |-> h, e |-> err, calls |-> <<>>]

storeAdapt(h, store, err) ==
    IF err # Nil THEN adaptScan(h, store, err, 1)
    ELSE [h |-> h, e |-> err, calls |-> <<>>]

\* Adapt as it would be without the type switch on the internal variants.
AdaptWithoutFastPath(h, store, err) == storeAdapt(h, store, err)

Adapt(h, store, err) ==
    IF err # Nil /\ h[err].kind \in InternalKinds
    THEN [h |-> h, e |-> err, calls |-> <<>>]
    ELSE storeAdapt(h, store, err)

\* The nil Adapter interface value.
NoAdapter == "nil"

\* register as it would be if it skipped an adapter that is already there.
storeRegisterOnce(store, a) ==
    IF a # NoAdapter /\ a \notin Range(store) THEN Append(store, a) ELSE store

storeRegister(store, a) == IF a # NoAdapter THEN Append(store, a) ELSE store

----------------------------------------------------------------------------
(* The builders.  Each returns the heap after the call, the error returned *)
(* and the adapters that were invoked.                                      *)

NilResult(h) == [h |-> h, e |-> Nil, calls |-> <<>>]

\* Alloc as it would be if the new node were written over the error it is
\* built over.
AllocInPlace(a, n) ==
    IF a.e = Nil THEN [h |-> Append(a.h, n), e |-> Len(a.h) + 1, calls |-> a.calls]
    ELSE [h |-> [a.h EXCEPT ![a.e] = n], e |-> a.e, calls |-> a.calls]

\* Allocate node n, built over the adapted error of a.
Alloc(a, n) == [h |-> Append(a.h, n), e |-> Len(a.h) + 1, calls |-> a.calls]

New(h, msg) ==
    [h |-> Append(h, baseError(msg, CaptureStackTrace)), e |-> Len(h) + 1,
     calls |-> <<>>]

WithMessage(h, store, err, msg) ==
    IF err = Nil THEN NilResult(h)
    ELSE LET a == Adapt(h, store, err) IN Alloc(a, errorWithMessage(a.e, msg))

WithStackTrace(h, store, err, stack) ==
    IF err = Nil THEN NilResult(h)
    ELSE LET a == Adapt(h, store, err) IN Alloc(a, errorWithStack(a.e, stack))

WithStack(h, store, err) == WithStackTrace(h, store, err, CaptureStackTrace)

WithTypes(h, store, err, types) ==
    IF err = Nil THEN NilResult(h)
    ELSE LET a == Adapt(h, store, err)
         IN  Alloc(a, errorWithTypes(a.e, copyTypes(types)))

\* WithTags as it would be without the test for a nil error.
WithTagsOfNil(h, store, err, tags) ==
    LET a == Adapt(h, store, err)
    IN  Alloc(a, errorWithTags(a.e, makeTags(tags)))

WithTags(h, store, err, tags) ==
    IF err = Nil THEN NilResult(h)
    ELSE LET a == Adapt(h, store, err)
         IN  Alloc(a, errorWithTags(a.e, makeTags(tags)))

wrap(h, store, err, msg) ==
    IF err = Nil THEN NilResult(h)
    ELSE LET a == Adapt(h, store, err)
             inner == Alloc(a, errorWithStack(a.e, CaptureStackTrace))
         IN  Alloc(inner, errorWithMessage(inner.e, msg))

Wrap(h, store, err, msg) == wrap(h, store, err, msg)

\* The second loop of Join: adapt and collect the non-nil arguments.
RECURSIVE joinLoop(_, _, _)
joinLoop(h, store, errs) ==
    IF errs = <<>> THEN [h |-> h, es |-> <<>>, calls |-> <<>>]
    ELSE IF errs[1] = Nil THEN joinLoop(h, store, Tail(errs))
    ELSE LET a == Adapt(h, store, errs[1])
             rest == joinLoop(a.h, store, Tail(errs))
         IN  [h |-> rest.h, es |-> <<a.e>> \o rest.es,
              calls |-> a.calls \o rest.calls]

\* Join as it would be if it filled the list of causes from its end.
JoinBackwards(h, store, errs) ==
    LET n == Cardinality({i \in 1..Len(errs) : errs[i] # Nil})
    IN  IF n = 0 THEN NilResult(h)
        ELSE LET r == joinLoop(h, store, errs)
                 es == [i \in 1..Len(r.es) |-> r.es[Len(r.es) + 1 - i]]
             IN  [h |-> Append(r.h, multiError(es)), e |-> Len(r.h) + 1,
                  calls |-> r.calls]

Join(h, store, errs) ==
    LET n == Cardinality({i \in 1..Len(errs) : errs[i] # Nil})
    IN  IF n = 0 THEN NilResult(h)
        ELSE LET r == joinLoop(h, store, errs)
             IN  [h |-> Append(r.h, multiError(r.es)), e |-> Len(r.h) + 1,
                  calls |-> r.calls]

\* Recv as it would be if it put each error received before the others.
recvNextFirst(h, store, errs, err) ==
    IF err = Nil THEN [h |-> h, errs |-> errs, calls |-> <<>>]
    ELSE LET a == Adapt(h, store, err)
         IN  [h |-> a.h, errs |-> <<a.e>> \o errs, calls |-> a.calls]

\* The body of the loop of Recv for the value err received from the
\* channel: errs is the list collected so far.
recvNext(h, store, errs, err) ==
    IF err = Nil THEN [h |-> h, errs |-> errs, calls |-> <<>>]
    ELSE LET a == Adapt(h, store, err)
         IN  [h |-> a.h, errs |-> Append(errs, a.e), calls |-> a.calls]

\* The end of Recv, once the channel is closed.
recvReturn(h, errs) ==
    IF Len(errs) = 0 THEN [h |-> h, e |-> Nil]
    ELSE [h |-> Append(h, multiError(errs)), e |-> Len(h) + 1]

----------------------------------------------------------------------------
(* The sequential program: one call at a time.  A call runs when the        *)
(* program is between two calls (op = "idle"); it leaves its name,          *)
(* arguments and result in op, args, ret and calls, where the caller reads  *)
(* them before it goes on.                                                  *)

Procs == {1, 2, 3}

Idle == [p \in Procs |-> "idle"]

NoLocals == [p \in Procs |-> [task |-> "", a |-> NoAdapter, err |-> Nil,
                              i |-> 0, seen |-> <<>>, result |-> Nil]]

Unlocked == [writer |-> Nil, readers |-> {}, waiting |-> {}]

\* make(chan error, n): nothing in the buffer, not closed.
NoChan == [buf |-> <<>>, closed |-> FALSE]

\* No array yet: arrays are the arrays made so far, caller the arrays the
\* caller has a slice of, backing the pairs of a node and the array behind
\* its list of types or tags.
NoArrays == [arrays |-> <<>>, caller |-> {}, backing |-> {}]

Init ==
    /\ heap = <<errorTODO>>
    /\ adapters = <<>>
    /\ op = "idle"
    /\ args = <<>>
    /\ ret = Nil
    /\ calls = <<>>
    /\ pc = Idle
    /\ mutex = Unlocked
    /\ local = NoLocals
    /\ ch = NoChan
    /\ mem = NoArrays

Errs == DOMAIN heap \cup {Nil}

\* The call name(as) ran to completion with result r.
Returns(name, as, r) ==
    /\ op = "idle"
    /\ Len(r.h) <= MaxNodes
    /\ heap' = r.h
    /\ op' = name
    /\ args' = as
    /\ ret' = r.e
    /\ calls' = r.calls
    /\ UNCHANGED <<adapters, pc, mutex, local, ch, mem>>

\* The caller has read the result and goes on to its next call.
Continue ==
    /\ op # "idle"
    /\ op' = "idle"
    /\ args' = <<>>
    /\ ret' = Nil
    /\ calls' = <<>>
    /\ UNCHANGED <<heap, adapters, pc, mutex, local, ch, mem>>

\* The program makes an error value of a type of its own.
CallForeign(n) ==
    Returns("foreign", <<>>, [h |-> Append(heap, n), e |-> Len(heap) + 1,
                              calls |-> <<>>])

CallNew(msg) == Returns("New", <<>>, New(heap, msg))

CallWithMessage(err, msg) ==
    Returns("WithMessage", <<err>>, WithMessage(heap, adapters, err, msg))

CallWithStack(err) ==
    Returns("WithStack", <<err>>, WithStack(heap, adapters, err))

CallWithTypes(err, types) ==
    Returns("WithTypes", <<err>>, WithTypes(heap, adapters, err, types))

CallWithTags(err, tags) ==
    Returns("WithTags", <<err>>, WithTags(heap, adapters, err, tags))

CallWrap(err, msg) ==
    Returns("Wrap", <<err>>, Wrap(heap, adapters, err, msg))

CallJoin(errs) == Returns("Join", errs, Join(heap, adapters, errs))

CallAdapt(err) == Returns("Adapt", <<err>>, Adapt(heap, adapters, err))

\* ValueOf(err).Err()
CallValueErr(err) ==
    Returns("ValueErr", <<err>>,
            LET r == ValueErr(heap, ValueOf(heap, err))
            IN  [h |-> r.h, e |-> r.e, calls |-> <<>>])

\* Register(a); the adapter given is left in calls.
CallRegister(a) ==
    /\ op = "idle"
    /\ Len(adapters) < MaxAdapters \/ a = NoAdapter
    /\ adapters' = storeRegister(adapters, a)
    /\ op' = "Register"
    /\ args' = <<>>
    /\ ret' = Nil
    /\ calls' = <<a>>
    /\ UNCHANGED <<heap, pc, mutex, local, ch, mem>>

ErrLists == UNION {[1..n -> Errs] : n \in 0..MaxJoin}

\* A program that uses every builder and registers adapters.
Next ==
    \/ CallNew("a")
    \/ \E n \in {adaptableError, timeout} : CallForeign(n)
    \/ \E err \in Errs : CallWithMessage(err, "a")
    \/ \E err \in Errs : CallWithStack(err)
    \/ \E err \in Errs : CallWithTypes(err, <<"Timeout">>)
    \/ \E err \in Errs : CallWithTags(err, <<T("x", "1")>>)
    \/ \E err \in Errs : CallWrap(err, "a")
    \/ \E errs \in ErrLists : CallJoin(errs)
    \/ \E err \in Errs : CallAdapt(err)
    \/ \E err \in Errs : CallValueErr(err)
    \/ \E a \in AdapterSet \cup {NoAdapter} : CallRegister(a)
    \/ Continue

Spec == Init /\ [][Next]_vars

----------------------------------------------------------------------------
(* Claims about the builders and the adapter registry (checked under Spec) *)

Builders == {"WithMessage", "WithStack", "WithTypes", "WithTags", "Wrap"}

Internal(err) == err # Nil /\ heap[err].kind \in InternalKinds

Foreign(err) == err # Nil /\ heap[err].kind \notin InternalKinds

NonNil(errs) == SelectSeq(errs, LAMBDA e : e # Nil)

\* C1: a builder called with a nil error returns nil, and called with a
\* non-nil error returns a non-nil error (a node of the heap).
C1_NilInNilOut ==
    op \in Builders =>
        /\ args[1] = Nil => ret = Nil
        /\ args[1] # Nil => ret \in DOMAIN heap

\* C1 witness: WithTags has returned nil for a nil error after it has built
\* a node for a non-nil one.
C1_Witness ==
    /\ op = "WithTags" /\ args = <<Nil>> /\ ret = Nil
    /\ \E e \in DOMAIN heap : heap[e].kind = "errorWithTags"

\* C2 as stated: Join returns nil exactly when no argument is non-nil, and
\* otherwise Causes of the result is the list of the non-nil arguments
\* themselves, in order.
C2_CausesAreTheArguments ==
    op = "Join" =>
        /\ ret = Nil <=> NonNil(args) = <<>>
        /\ ret # Nil => Causes(heap, ret) = NonNil(args)

\* The error Adapt made of err when the call that has just returned ran:
\* err itself, or the node cause that an adapter built around err.
IsAdaptedFrom(cause, err) ==
    LET r == Adapt(heap, adapters, err)
    IN  IF r.e = err THEN cause = err
        ELSE cause # err /\ heap[cause] = r.h[r.e]

\* C2 amended: Join returns nil exactly when no argument is non-nil, and
\* otherwise Causes of the result is the list of the adapted non-nil
\* arguments, in order: the argument itself when it is an internal node or
\* no registered adapter recognizes it, else the adapter's wrapper of it.
C2_CausesAreTheAdaptedArguments ==
    op = "Join" =>
        /\ ret = Nil <=> NonNil(args) = <<>>
        /\ ret # Nil =>
            LET causes == Causes(heap, ret)
                given == NonNil(args)
            IN  /\ heap[ret].kind = "multiError"
                /\ Len(causes) = Len(given)
                /\ \A i \in 1..Len(given) : IsAdaptedFrom(causes[i], given[i])

\* C2 witness: Join has dropped a nil argument and kept two different
\* errors in their order.
C2_Witness ==
    /\ op = "Join" /\ ret # Nil
    /\ \/ Len(args) = 2 /\ args[1] = Nil /\ Causes(heap, ret) = <<args[2]>>
       \/ /\ Len(args) = 2 /\ args[1] # Nil /\ args[2] # Nil
          /\ args[1] > args[2]
          /\ Causes(heap, ret) = args

\* C5: Adapt(nil) is nil, Adapt of an internal node is that node and no
\* adapter is invoked; a builder applied to an internal node wraps that
\* very node.
C5_InternalNodesAreNotAdapted ==
    /\ op = "Adapt" /\ (args[1] = Nil \/ Internal(args[1])) =>
            ret = args[1] /\ calls = <<>>
    /\ op \in Builders /\ Internal(args[1]) =>
            /\ calls = <<>>
            /\ IF op = "Wrap" THEN heap[heap[ret].cause].cause = args[1]
               ELSE heap[ret].cause = args[1]
    /\ op = "Join" =>
            \A i \in 1..Len(NonNil(args)) :
                Internal(NonNil(args)[i]) =>
                    heap[ret].causes[i] = NonNil(args)[i]

\* C5 witness: Adapt has returned a snapshot-reconstructed node unchanged
\* while two adapters were registered.
C5_Witness ==
    /\ op = "Adapt" /\ args[1] # Nil /\ heap[args[1]].kind = "errorValue"
    /\ ret = args[1] /\ Len(adapters) = 2

\* The first registered adapter that recognizes err, or 0.
FirstRecognizing(err) ==
    LET hits == {i \in 1..Len(adapters) : recognizes(adapters[i], heap[err])}
    IN  IF hits = {} THEN 0 ELSE CHOOSE i \in hits : \A j \in hits : i <= j

\* C6: for a non-nil error that is not an internal variant, Adapt invokes
\* the adapters in registration order up to the first that recognizes it
\* and returns that adapter's output; when none recognizes it Adapt has
\* invoked them all and returns the input.
C6_FirstRecognizingAdapterWins ==
    op = "Adapt" /\ Foreign(args[1]) =>
        LET k == FirstRecognizing(args[1])
        IN  IF k = 0 THEN ret = args[1] /\ calls = adapters
            ELSE /\ calls = SubSeq(adapters, 1, k)
                 /\ ret = Len(heap)
                 /\ heap[ret] = adapted(adapters[k], args[1])

\* C6 witness: two different adapters that both recognize the error are
\* registered and Adapt has returned the output of the first.
C6_Witness ==
    /\ op = "Adapt" /\ Foreign(args[1])
    /\ Len(adapters) = 2 /\ adapters[1] # adapters[2]
    /\ \A i \in 1..2 : recognizes(adapters[i], heap[args[1]])
    /\ calls = <<adapters[1]>>
    /\ heap[ret] = adapted(adapters[1], args[1])

IsPrefix(s, t) == Len(s) <= Len(t) /\ SubSeq(t, 1, Len(s)) = s

\* C7: the registry starts empty and is append-only: Register(a) with a non-nil a appends a
\* at the end, Register(nil) and every other call leave the list unchanged,
\* so the list of a state is a prefix of the list of every later state.
C7_RegistryIsAppendOnly ==
    /\ adapters = <<>>
    /\ [][/\ IsPrefix(adapters, adapters')
          /\ IF op = "idle" /\ op' = "Register"
             THEN IF calls'[1] # NoAdapter
                  THEN adapters' = Append(adapters, calls'[1])
                  ELSE adapters' = adapters
             ELSE adapters' = adapters]_vars

\* C7 witness: Register has appended an adapter that was already present.
C7_Witness ==
    /\ op = "Register" /\ Len(adapters) = 2
    /\ adapters[1] = adapters[2] /\ calls = <<adapters[2]>>

\* The nodes reached from err through single-cause and multi-cause links.
RECURSIVE Reach(_)
Reach(err) ==
    IF err = Nil THEN {}
    ELSE {err}
         \cup (IF errorCause(heap[err]) THEN Reach(heap[err].cause) ELSE {})
         \cup (IF errorCauses(heap[err])
               THEN UNION {Reach(c) : c \in Range(heap[err].causes)} ELSE {})

\* The explicit type names of the node n and the names of its methods that
\* return true.
Names(n) ==
    (IF errorTypes(heap[n]) THEN Range(heap[n].types) ELSE {})
    \cup heap[n].predTrue

\* The list is in increasing order, no name twice.
Increasing(types) ==
    \A i \in 1..(Len(types) - 1) : StringLess(types[i], types[i + 1])

Wrappers == {"WithStack", "WithMessage", "Wrap"}

\* C16 as stated, its last part: wrapping e with WithStack, WithMessage or
\* Wrap does not change Types(e).
C16_WrappersKeepTheTypes ==
    op \in Wrappers => Types(heap, ret) = Types(heap, args[1])

\* C16 amended: Types(e) is the increasing list, no name twice, of the
\* explicit type names and true method names of the nodes reachable from e,
\* empty for nil and for errors with no types; WithStack, WithMessage and
\* Wrap wrap Adapt(e), so the types of their result are those of Adapt(e):
\* those of e when e is an internal node or no registered adapter
\* recognizes it, else those of the adapter's wrapper of e.
C16_TypesAreTheSortedUnion ==
    /\ \A e \in Errs :
          /\ Increasing(Types(heap, e))
          /\ Range(Types(heap, e)) = UNION {Names(n) : n \in Reach(e)}
    /\ op \in Wrappers =>
          LET r == Adapt(heap, adapters, args[1])
          IN  /\ Types(heap, ret) = Types(r.h, r.e)
              /\ r.e = args[1] => Types(heap, ret) = Types(heap, args[1])

\* C16 witness: a wrapper of a multi-cause node with a cause whose methods
\* return true has the types of that cause.
C16_Witness ==
    /\ op \in Wrappers /\ args[1] # Nil /\ heap[args[1]].kind = "multiError"
    /\ \E c \in Range(heap[args[1]].causes) : c # Nil /\ heap[c].kind = "timeout"
    /\ Types(heap, ret) = <<"Temporary", "Timeout">>
    /\ Types(heap, Nil) = <<>>

----------------------------------------------------------------------------
(* A program that classifies errors: it builds graphs over foreign errors  *)
(* with classification methods and queries them with Is and Types.         *)

\* The type names the program asks about.
TypeNames == {"Temporary", "Timeout", "Validation"}

\* The type lists the program gives to WithTypes.
TypeLists == {<<"Validation">>, <<"Timeout", "Temporary">>}

\* twirperrors.Adapt on a twirp.Error: the value wrapped is an error of a
\* foreign type (twirp.Error is an interface).
CallTwirpAdapt(err) ==
    /\ err # Nil /\ heap[err].kind = "timeout"
    /\ CallForeign(twirpError(err))

\* Is(typ, err); the answer is left in ret.
CallIs(typ, err) ==
    /\ op = "idle"
    /\ op' = "Is"
    /\ args' = <<err, typ>>
    /\ ret' = Is(typ, heap, err)
    /\ calls' = <<>>
    /\ UNCHANGED <<heap, adapters, pc, mutex, local, ch, mem>>

\* Types(err); the list is left in ret.
CallTypes(err) ==
    /\ op = "idle"
    /\ op' = "Types"
    /\ args' = <<err>>
    /\ ret' = Types(heap, err)
    /\ calls' = <<>>
    /\ UNCHANGED <<heap, adapters, pc, mutex, local, ch, mem>>

NextTypes ==
    \/ CallForeign(timeout)
    \/ \E err \in Errs : CallTwirpAdapt(err)
    \/ \E err \in Errs : CallWithMessage(err, "a")
    \/ \E err \in Errs, types \in TypeLists : CallWithTypes(err, types)
    \/ \E errs \in ErrLists : CallJoin(errs)
    \/ \E err \in Errs, typ \in TypeNames : CallIs(typ, err)
    \/ \E err \in Errs : CallTypes(err)
    \/ Continue

SpecTypes == Init /\ [][NextTypes]_vars

----------------------------------------------------------------------------
(* Claims about Is and Types (checked under SpecTypes) *)

\* C3 as stated: Is(kind, e) is true exactly when kind is an element of
\* Types(e); in particular Is(kind, nil) is false.
C3_IsIffInTypes ==
    op = "Is" => (ret <=> args[2] \in Range(Types(heap, args[1])))

\* Steps (1) and (2) at one node: the node answers the query itself.
Answers(typ, n) ==
    \/ errorTypes(n) /\ typ \in Range(n.types)
    \/ typ \in n.predTrue \cup n.predFalse

\* The answer of a node that answers: true for a listed type whatever its
\* methods say, else the result of the method.
Answer(typ, n) ==
    IF errorTypes(n) /\ typ \in Range(n.types) THEN TRUE
    ELSE typ \in n.predTrue

\* The nodes below n that step (3) goes into.
Below(n) ==
    IF errorCause(n) THEN {n.cause} \ {Nil}
    ELSE IF errorCauses(n) THEN Range(n.causes)
    ELSE {}

\* The nodes that can be reached from err through nodes that do not answer.
RECURSIVE Asked(_, _)
Asked(typ, err) ==
    {err} \cup (IF Answers(typ, heap[err]) THEN {}
                ELSE UNION {Asked(typ, c) : c \in Below(heap[err])})

\* C4: Is(kind, node) is true exactly when some node reached from it
\* through nodes that neither list kind nor have a method named kind
\* answers true: by listing kind, or else by its method kind returning
\* true; a node whose method returns false ends the search below it.
C4_IsResolvesInOrder ==
    op = "Is" =>
        (ret <=> /\ args[1] # Nil
                 /\ \E e \in Asked(args[2], args[1]) :
                        Answers(args[2], heap[e]) /\ Answer(args[2], heap[e]))

\* C4 witness: Is has answered false at a wrapper whose method returns
\* false, below a node that does not answer, although the wrapper's cause
\* has a method that returns true.
C4_Witness ==
    /\ op = "Is" /\ args[1] # Nil /\ ret = FALSE
    /\ heap[args[1]].kind = "errorWithMessage"
    /\ LET w == heap[heap[args[1]].cause]
       IN  /\ args[2] \in w.predFalse
           /\ w.cause # Nil /\ args[2] \in heap[w.cause].predTrue

----------------------------------------------------------------------------
(* The concurrent program: goroutines that call Register and Adapt at the  *)
(* same time.  store.mutex is a sync.RWMutex: writer is the goroutine that *)
(* holds it for writing, readers those that hold it for reading, waiting   *)
(* those that have called Lock and wait for the readers to leave (a        *)
(* pending Lock holds back new readers).                                   *)

MaxConcNodes == 5   \* the heap of the concurrent program holds at most this

\* The entry of a slot of the slice that append has claimed and not written.
Unwritten == "unwritten"

\* register as it would be if it took the mutex with RLock.
registerAcquireShared(m) == m.writer = Nil

\* store.mutex.Lock() returns when nobody holds the mutex.
registerAcquire(m) == m.writer = Nil /\ m.readers = {}

\* store.mutex.RLock() returns when no writer holds or awaits the mutex.
adaptAcquire(m) == m.writer = Nil /\ m.waiting = {}

InitConc ==
    /\ heap = <<errorTODO, adaptableError, timeout>>
    /\ adapters = <<>>
    /\ op = "idle"
    /\ args = <<>>
    /\ ret = Nil
    /\ calls = <<>>
    /\ pc = Idle
    /\ mutex = Unlocked
    /\ local = NoLocals
    /\ ch = NoChan
    /\ mem = NoArrays

Running(task) == {p \in Procs : local[p].task = task}

Goto(p, label) == pc' = [pc EXCEPT ![p] = label]

Sequential == <<op, args, ret, calls>>

\* Goroutine p calls Register(a).
Register(p, a) ==
    /\ pc[p] = "idle"
    /\ a = NoAdapter \/ Len(adapters) + Cardinality(Running("Register")) < MaxAdapters
    /\ local' = [local EXCEPT ![p].task = "Register", ![p].a = a]
    /\ Goto(p, "register")
    /\ UNCHANGED <<heap, adapters, mutex, Sequential, ch, mem>>

\* register: if a != nil
registerTest(p) ==
    /\ pc[p] = "register"
    /\ IF local[p].a # NoAdapter THEN Goto(p, "Lock") ELSE Goto(p, "done")
    /\ UNCHANGED <<heap, adapters, mutex, local, Sequential, ch, mem>>

\* store.mutex.Lock() is called: from now on no new reader gets in.
registerLock(p) ==
    /\ pc[p] = "Lock"
    /\ mutex' = [mutex EXCEPT !.waiting = @ \cup {p}]
    /\ Goto(p, "Locking")
    /\ UNCHANGED <<heap, adapters, local, Sequential, ch, mem>>

\* store.mutex.Lock() returns.
registerLocked(p) ==
    /\ pc[p] = "Locking"
    /\ registerAcquire(mutex)
    /\ mutex' = [mutex EXCEPT !.writer = p, !.waiting = @ \ {p}]
    /\ Goto(p, "append")
    /\ UNCHANGED <<heap, adapters, local, Sequential, ch, mem>>

\* append(store.adapters, a) claims the next slot of the slice ...
registerAppend(p) ==
    /\ pc[p] = "append"
    /\ local' = [local EXCEPT ![p].seen = storeRegister(adapters, local[p].a)]
    /\ adapters' = Append(adapters, Unwritten)
    /\ Goto(p, "assign")
    /\ UNCHANGED <<heap, mutex, Sequential, ch, mem>>

\* ... and store.adapters is the appended slice once the assignment is done.
registerAssign(p) ==
    /\ pc[p] = "assign"
    /\ adapters' = local[p].seen
    /\ Goto(p, "Unlock")
    /\ UNCHANGED <<heap, mutex, local, Sequential, ch, mem>>

\* store.mutex.Unlock()
registerUnlock(p) ==
    /\ pc[p] = "Unlock"
    /\ mutex' = [mutex EXCEPT !.writer = Nil]
    /\ Goto(p, "done")
    /\ UNCHANGED <<heap, adapters, local, Sequential, ch, mem>>

\* Goroutine p calls Adapt(err); a scan may allocate one node.
AdaptCall(p, err) ==
    /\ pc[p] = "idle"
    /\ Len(heap) + Cardinality(Running("Adapt")) < MaxConcNodes
    /\ local' = [local EXCEPT ![p].task = "Adapt", ![p].err = err]
    /\ Goto(p, "Adapt")
    /\ UNCHANGED <<heap, adapters, mutex, Sequential, ch, mem>>

\* Adapt's type switch, and adapt's test if err != nil.
adaptTest(p) ==
    /\ pc[p] = "Adapt"
    /\ LET err == local[p].err
       IN  IF err = Nil \/ heap[err].kind \in InternalKinds
           THEN /\ local' = [local EXCEPT ![p].result = err]
                /\ Goto(p, "done")
           ELSE /\ Goto(p, "RLock")
                /\ UNCHANGED local
    /\ UNCHANGED <<heap, adapters, mutex, Sequential, ch, mem>>

\* store.mutex.RLock()
adaptRLock(p) ==
    /\ pc[p] = "RLock"
    /\ adaptAcquire(mutex)
    /\ mutex' = [mutex EXCEPT !.readers = @ \cup {p}]
    /\ Goto(p, "range")
    /\ UNCHANGED <<heap, adapters, local, Sequential, ch, mem>>

\* range store.adapters: the slice is read once, when the loop starts.
adaptRange(p) ==
    /\ pc[p] = "range"
    /\ local' = [local EXCEPT ![p].seen = adapters, ![p].i = 1]
    /\ Goto(p, "loop")
    /\ UNCHANGED <<heap, adapters, mutex, Sequential, ch, mem>>

\* One iteration of the loop, or its end.
adaptLoop(p) ==
    /\ pc[p] = "loop"
    /\ LET l == local[p] IN
       IF l.i > Len(l.seen)
       THEN /\ local' = [local EXCEPT ![p].result = l.err]
            /\ Goto(p, "RUnlock")
            /\ UNCHANGED heap
       ELSE LET r == adapterAdapt(l.seen[l.i], heap, l.err)
            IN  IF r.ok
                THEN /\ heap' = r.h
                     /\ local' = [local EXCEPT ![p].result = r.e]
                     /\ Goto(p, "RUnlock")
                ELSE /\ local' = [local EXCEPT ![p].i = l.i + 1]
                     /\ UNCHANGED <<heap, pc>>
    /\ UNCHANGED <<adapters, mutex, Sequential, ch, mem>>

\* adapt as it would be if it returned without RUnlock.
adaptReturnsLocked(p) ==
    /\ pc[p] = "RUnlock"
    /\ Goto(p, "done")
    /\ UNCHANGED <<heap, adapters, mutex, local, Sequential, ch, mem>>

\* The deferred store.mutex.RUnlock()
adaptRUnlock(p) ==
    /\ pc[p] = "RUnlock"
    /\ mutex' = [mutex EXCEPT !.readers = @ \ {p}]
    /\ Goto(p, "done")
    /\ UNCHANGED <<heap, adapters, local, Sequential, ch, mem>>

\* The call of goroutine p has returned; p goes on to its next call.
Return(p) ==
    /\ pc[p] = "done"
    /\ local' = [local EXCEPT ![p] = NoLocals[p]]
    /\ Goto(p, "idle")
    /\ UNCHANGED <<heap, adapters, mutex, Sequential, ch, mem>>

NextConc ==
    \/ \E p \in Procs, a \in AdapterSet \cup {NoAdapter} : Register(p, a)
    \/ \E p \in Procs : registerTest(p)
    \/ \E p \in Procs : registerLock(p)
    \/ \E p \in Procs : registerLocked(p)
    \/ \E p \in Procs : registerAppend(p)
    \/ \E p \in Procs : registerAssign(p)
    \/ \E p \in Procs : registerUnlock(p)
    \/ \E p \in Procs, err \in Errs : AdaptCall(p, err)
    \/ \E p \in Procs : adaptTest(p)
    \/ \E p \in Procs : adaptRLock(p)
    \/ \E p \in Procs : adaptRange(p)
    \/ \E p \in Procs : adaptLoop(p)
    \/ \E p \in Procs : adaptRUnlock(p)
    \/ \E p \in Procs : Return(p)

SpecConc == InitConc /\ [][NextConc]_vars

----------------------------------------------------------------------------
(* Claims about concurrent Register and Adapt calls (checked under SpecConc) *)

\* Goroutine p is inside register's critical section.
Appending(p) == pc[p] \in {"append", "assign", "Unlock"}

\* Goroutine p is inside adapt's critical section.
Scanning(p) == pc[p] \in {"range", "loop", "RUnlock"}

\* C8: while a Register is inside its critical section no Adapt scan and no
\* other Register is inside theirs, and the list an Adapt scan ranges over
\* is the list as it was after a whole number of completed registrations:
\* the first entries of the registry, none of them a slot that is claimed
\* and not written.
C8_RegisterExcludesScans ==
    /\ \A p \in Procs : Appending(p) =>
            \A q \in Procs \ {p} : ~Appending(q) /\ ~Scanning(q)
    /\ \A p \in Procs : pc[p] \in {"loop", "RUnlock"} =>
            /\ Unwritten \notin Range(local[p].seen)
            /\ IsPrefix(local[p].seen, adapters)

\* C8 witness: two Adapt scans are inside their critical sections at the
\* same time, over a list with an adapter in it, while a Register waits
\* for them.
C8_Witness ==
    \E p, q, r \in Procs :
        /\ p # q
        /\ pc[p] = "loop" /\ pc[q] = "loop"
        /\ local[p].seen # <<>> /\ local[q].seen # <<>>
        /\ pc[r] = "Locking"

----------------------------------------------------------------------------
(* A program that sends errors to another process: it builds errors with   *)
(* messages, tags and several causes, takes their Value and rebuilds them.  *)

\* The tag lists the program gives to WithTags.
TagLists == {<<T("x", "1")>>, <<T("x", "2")>>, <<T("y", "1"), T("x", "1")>>}

NextValue ==
    \/ CallNew("a")
    \/ \E err \in Errs : CallWithMessage(err, "b")
    \/ \E err \in Errs, tags \in TagLists : CallWithTags(err, tags)
    \/ \E errs \in ErrLists : CallJoin(errs)
    \/ \E err \in Errs : CallValueErr(err)
    \/ Continue

SpecValue == Init /\ [][NextValue]_vars

----------------------------------------------------------------------------
(* Claims about the snapshot round trip (checked under SpecValue) *)

\* C9 as stated: the error rebuilt from the snapshot of a non-nil error e
\* has the same error string as e, also when e is or wraps a multi-cause
\* node.
C9_RebuiltErrorString ==
    op = "ValueErr" /\ args[1] # Nil =>
        ret # Nil /\ Error(heap, ret) = Error(heap, args[1])

\* C10 as stated: the tags of the error rebuilt from the snapshot of e are
\* the tags of e, also when a tag name has different values on different
\* nodes of e.
C10_RebuiltTags ==
    op = "ValueErr" => Tags(heap, ret) = Tags(heap, args[1])

----------------------------------------------------------------------------
(* The tree formatter (%v and %+v).  The formatter is its output so far,   *)
(* out, the indent symbols, and plus, the '+' flag.  The box-drawing        *)
(* symbols of the source are written '-- and |--.                           *)

\* formatterContext.last
last(fctx) == ~(fctx.index < fctx.length - 1)

\* indent.set
indentSet(symbols, s) ==
    IF symbols # <<>> THEN [symbols EXCEPT ![Len(symbols)] = s] ELSE symbols

\* nextNode as it would be if every node had the connector of a last child.
nextNodeOfLast(symbols, fctx) == indentSet(symbols, "'-- ")

\* indent.nextNode
nextNode(symbols, fctx) ==
    indentSet(symbols, IF last(fctx) THEN "'-- " ELSE "|-- ")

\* indent.nextLine
nextLine(symbols, fctx) ==
    indentSet(symbols, IF last(fctx) THEN "    " ELSE "|   ")

\* indent.push
push(symbols, fctx) == Append(nextLine(symbols, fctx), "")

\* pop as it would be if it left the symbols as they are.
popNothing(symbols) == symbols

\* indent.pop
pop(symbols) == SubSeq(symbols, 1, Len(symbols) - 1)

writeString(f, s) == [f EXCEPT !.out = @ \o s]

writeIndent(f) == writeString(f, stringsJoin(f.symbols, ""))

writeNewLine(f, fctx) ==
    [writeString(f, "\n") EXCEPT !.symbols = nextLine(@, fctx)]

\* strings.Split(s, "\n")
stringsSplit(s) ==
    LET breaks == {i \in 1..Len(s) : SubSeq(s, i, i) = "\n"}
        \* where the k-th line break is; 0 before the first, past the end
        \* after the last
        at(k) == IF k = 0 THEN 0
                 ELSE IF k > Cardinality(breaks) THEN Len(s) + 1
                 ELSE CHOOSE i \in breaks :
                         Cardinality({j \in breaks : j < i}) = k - 1
    IN  [k \in 1..(Cardinality(breaks) + 1) |->
            SubSeq(s, at(k - 1) + 1, at(k) - 1)]

RECURSIVE writeLines(_, _, _, _)
writeLines(f, fctx, lines, i) ==
    IF i > Len(lines) THEN f
    ELSE LET f1 == IF i # 1 THEN writeNewLine(f, fctx) ELSE f
         IN  writeLines(writeString(writeIndent(f1), lines[i]), fctx, lines,
                        i + 1)

writeTypes(f, types) ==
    IF Len(types) # 0 THEN writeString(f, " (" \o stringsJoin(types, " ") \o ")")
    ELSE f

\* fmt.Fprintf(f.state, "%s:%q", t.Name, t.Value)
tagString(t) == t.Name \o ":\"" \o t.Value \o "\""

writeTags(f, tags) ==
    IF Len(tags) # 0
    THEN writeString(f, " [" \o stringsJoin([i \in 1..Len(tags) |->
                                                 tagString(tags[i])], " ")
                            \o "]")
    ELSE f

\* writeFrameFunc and writeFrameFile: a frame is written on two lines.
writeFrame(f, fctx, frame) ==
    LET f1 == writeString(writeIndent(writeNewLine(f, fctx)), frame)
    IN  writeString(writeIndent(writeNewLine(f1, fctx)), "\t" \o frame)

RECURSIVE writeFrames(_, _, _)
writeFrames(f, fctx, stack) ==
    IF stack = <<>> THEN f
    ELSE writeFrames(writeFrame(f, fctx, stack[1]), fctx, Tail(stack))

RECURSIVE writeStacks(_, _, _, _)
writeStacks(f, fctx, stacks, i) ==
    IF i > Len(stacks) THEN f
    ELSE LET f1 == IF i # 1 THEN writeIndent(writeNewLine(f, fctx)) ELSE f
             f2 == writeFrames(f1, fctx, stacks[i])
         IN  writeStacks(writeIndent(writeNewLine(f2, fctx)), fctx, stacks,
                         i + 1)

writeNode(f, fctx, msgs, types, tags, stacks) ==
    LET f1 == IF fctx.needNewLine THEN writeNewLine(f, fctx) ELSE f
        f2 == [f1 EXCEPT !.symbols = nextNode(@, fctx)]
        f3 == writeLines(f2, fctx, stringsSplit(stringsJoin(msgs, ": ")), 1)
        f4 == writeTags(writeTypes(f3, types), tags)
    IN  IF f.plus THEN writeStacks(f4, fctx, stacks, 1) ELSE f4

\* formatter.format
RECURSIVE formatterFormat(_, _, _, _)
formatterFormat(f, fctx, h, err) ==
    LET r == inspect(h, err)
        msgs == IF Len(r.msgs) = 0 THEN <<".">> ELSE r.msgs
        f1 == writeNode(f, fctx, msgs, r.types, r.tags, r.stacks)
        f2 == [f1 EXCEPT !.symbols = push(@, fctx)]
        RECURSIVE each(_, _)
        each(g, i) ==
            IF i > Len(r.causes) THEN g
            ELSE each(formatterFormat(g, [index |-> i - 1,
                                          length |-> Len(r.causes),
                                          needNewLine |-> TRUE],
                                      h, r.causes[i]),
                      i + 1)
    IN  [each(f2, 1) EXCEPT !.symbols = pop(@)]

\* format with the verb v: what %v (plus = FALSE) and %+v (plus = TRUE)
\* write for err.
format(h, plus, err) ==
    formatterFormat([out |-> "", symbols |-> <<>>, plus |-> plus],
                    [index |-> 0, length |-> 1, needNewLine |-> FALSE],
                    h, err).out

\* fmt.Sprint(err): the nodes of the package have a Format method, other
\* errors are printed with their Error method, and nil as <nil>.
Sprint(h, err) ==
    IF err = Nil THEN "<nil>"
    ELSE IF h[err].kind \in InternalKinds THEN format(h, FALSE, err)
    ELSE Error(h, err)

----------------------------------------------------------------------------
(* A program that sends the Value of its errors to another program, which  *)
(* rebuilds them with Err: the rebuilt nodes are in the memory of the      *)
(* receiver (ret.h), the rebuilt error is ret.e.                            *)

\* The sender takes ValueOf(err), the Value travels (args[2]) and the
\* receiver calls its Err method.
CallReceive(err) ==
    /\ op = "idle"
    /\ op' = "Receive"
    /\ args' = <<err, ValueOf(heap, err)>>
    /\ ret' = ValueErr(<<>>, ValueOf(heap, err))
    /\ calls' = <<>>
    /\ UNCHANGED <<heap, adapters, pc, mutex, local, ch, mem>>

\* The Values a receiver may decode that no ValueOf made: every field is
\* set or left out on its own, the causes too.
Values ==
    LET leaves ==
            [Message : {"", "a"},
             Tags : {NilMap, makeTagsMap(<<T("x", "1")>>)},
             Types : {<<>>, <<"Timeout">>}, Stack : {<<>>, <<"f:func">>},
             Causes : {<<>>}]
        causes ==
            {<<>>, <<ZeroValue>>,
             <<[ZeroValue EXCEPT !.Message = "a"], ZeroValue>>,
             <<[ZeroValue EXCEPT !.Tags = makeTagsMap(<<T("y", "1")>>)],
               [ZeroValue EXCEPT !.Message = "b", !.Types = <<"Validation">>]>>}
    IN  {[v EXCEPT !.Causes = vs] : v \in leaves, vs \in causes}

\* v.Err() in the receiver.
CallErr(v) ==
    /\ op = "idle"
    /\ op' = "Err"
    /\ args' = <<v>>
    /\ ret' = ValueErr(<<>>, v)
    /\ calls' = <<>>
    /\ UNCHANGED <<heap, adapters, pc, mutex, local, ch, mem>>

NextSnapshot ==
    \/ CallNew("a")
    \/ CallForeign(timeout)
    \/ \E err \in Errs : CallWithMessage(err, "b")
    \/ \E err \in Errs, types \in TypeLists : CallWithTypes(err, types)
    \/ \E err \in Errs : CallWithTags(err, <<T("x", "1")>>)
    \/ \E errs \in ErrLists : CallJoin(errs)
    \/ \E err \in Errs : CallReceive(err)
    \/ \E v \in Values : CallErr(v)
    \/ Continue

SpecSnapshot == Init /\ [][NextSnapshot]_vars

----------------------------------------------------------------------------
(* Claims about the rebuilt error (checked under SpecSnapshot) *)

\* C11: the types of the error rebuilt from the snapshot of e are the types
\* of e, with the types of nested causes and those of methods that return
\* true.
C11_RebuiltTypes ==
    op = "Receive" => Types(ret.h, ret.e) = Types(heap, args[1])

\* C11 witness: the error sent is a multi-cause node with a cause that
\* lists types and a cause whose methods return true, and the rebuilt error
\* has the types of both.
C11_Witness ==
    /\ op = "Receive" /\ args[1] # Nil
    /\ heap[args[1]].kind = "multiError"
    /\ \E c \in Range(heap[args[1]].causes) : heap[c].kind = "errorWithTypes"
    /\ \E c \in Range(heap[args[1]].causes) : heap[c].kind = "timeout"
    /\ Types(ret.h, ret.e) = <<"Temporary", "Timeout", "Validation">>

\* C12 as stated: for an error e of the package's node types, fmt.Sprint of
\* the error rebuilt from the snapshot of e is fmt.Sprint of e: the same
\* node lines with the same messages, types and tags, in the same tree.
C12_RebuiltRendering ==
    op = "Receive" /\ args[1] # Nil /\ heap[args[1]].kind \in InternalKinds =>
        Sprint(ret.h, ret.e) = Sprint(heap, args[1])

\* The node e of the memory h carries the Value v: its message, its types,
\* the tags of its map by name, and for each cause of v, in order, nil when
\* that cause is the zero Value and else a node that carries it.
RECURSIVE Carries(_, _, _)
Carries(h, e, v) ==
    /\ e \in DOMAIN h
    /\ h[e].msg = v.Message
    /\ h[e].types = v.Types
    /\ Range(h[e].tags) = {T(name, v.Tags[name]) : name \in DOMAIN v.Tags}
    /\ Len(h[e].tags) = Cardinality(DOMAIN v.Tags)
    /\ \A i \in 1..(Len(h[e].tags) - 1) : tagLess(h[e].tags[i], h[e].tags[i + 1])
    /\ Len(h[e].causes) = Len(v.Causes)
    /\ \A i \in 1..Len(v.Causes) :
          IF v.Causes[i] = ZeroValue THEN h[e].causes[i] = Nil
          ELSE Carries(h, h[e].causes[i], v.Causes[i])

\* The Value whose Err method ran.
Decoded == IF op = "Receive" THEN args[2] ELSE args[1]

\* C13: ValueOf(nil) is the zero Value; Err returns nil exactly for the
\* zero Value, and for every other Value, partial ones too, a node that
\* carries its message, types, tags and rebuilt causes.
C13_ErrOfEveryValue ==
    /\ op = "Receive" /\ args[1] = Nil => args[2] = ZeroValue
    /\ op \in {"Receive", "Err"} =>
          /\ ret.e = Nil <=> Decoded = ZeroValue
          /\ ret.e # Nil => Carries(ret.h, ret.e, Decoded)

\* C13 witness: a Value with a tag map, no message and a zero Value among
\* its causes is rebuilt as a node with the tag, an empty message and a nil
\* cause.
C13_Witness ==
    /\ op = "Err" /\ args[1].Message = "" /\ DOMAIN args[1].Tags # {}
    /\ args[1].Types = <<>> /\ ZeroValue \in Range(args[1].Causes)
    /\ ret.e # Nil
    /\ ret.h[ret.e].tags = <<T("x", "1")>>
    /\ Nil \in Range(ret.h[ret.e].causes)

----------------------------------------------------------------------------
(* A program that asks for the cause and the causes of the errors it built, *)
(* some of them above an error whose Cause method returns nil.              *)

\* Cause(err); the cause is left in ret.
CallCause(err) ==
    /\ op = "idle"
    /\ op' = "Cause"
    /\ args' = <<err>>
    /\ ret' = Cause(heap, err)
    /\ calls' = <<>>
    /\ UNCHANGED <<heap, adapters, pc, mutex, local, ch, mem>>

\* Causes(err); the list is left in ret.
CallCauses(err) ==
    /\ op = "idle"
    /\ op' = "Causes"
    /\ args' = <<err>>
    /\ ret' = Causes(heap, err)
    /\ calls' = <<>>
    /\ UNCHANGED <<heap, adapters, pc, mutex, local, ch, mem>>

NextCauses ==
    \/ CallNew("a")
    \/ CallForeign(errorWithNilCause)
    \/ \E err \in Errs : CallWrap(err, "")
    \/ \E err \in Errs : CallWithTags(err, <<T("x", "1")>>)
    \/ \E errs \in ErrLists : CallJoin(errs)
    \/ \E err \in Errs : CallCause(err)
    \/ \E err \in Errs : CallCauses(err)
    \/ Continue

SpecCauses == Init /\ [][NextCauses]_vars

----------------------------------------------------------------------------
(* Claims about Cause and Causes (checked under SpecCauses) *)

\* The node n has a single-cause link that returns a non-nil cause.
Linked(n) == n # Nil /\ errorCause(heap[n]) /\ heap[n].cause # Nil

\* The nodes reached from err by following single-cause links.
RECURSIVE Chain(_)
Chain(err) ==
    IF err = Nil THEN {}
    ELSE {err} \cup (IF Linked(err) THEN Chain(heap[err].cause) ELSE {})

\* C14: for a non-nil error e, Cause(e) is the innermost node of the
\* single-cause chain of e, and Cause of that node is the node itself.
C14_CauseIsIdempotent ==
    op = "Cause" /\ args[1] # Nil =>
        /\ ret \in Chain(args[1])
        /\ ~Linked(ret)
        /\ Cause(heap, ret) = ret

\* C14 witness: Cause was asked of a wrapper two links above its cause.
C14_Witness ==
    /\ op = "Cause" /\ Linked(args[1]) /\ Linked(heap[args[1]].cause)
    /\ ret = heap[heap[args[1]].cause].cause

\* The node n has the cause capability and returns a nil cause.
NilCause(n) == n # Nil /\ errorCause(heap[n]) /\ heap[n].cause = Nil

\* A node with neither a cause nor causes.
Leaf(n) == n # Nil /\ ~errorCause(heap[n]) /\ ~errorCauses(heap[n])

\* C15: above a node n whose Cause method returns nil, Cause(w) is n and
\* Causes(w) is the list of n alone; Causes of a leaf and Causes(nil) are
\* empty.
C15_NilCauseIsTheCause ==
    /\ op \in {"Cause", "Causes"} =>
          \A n \in Chain(args[1]) \ {args[1]} :
              NilCause(n) => ret = IF op = "Cause" THEN n ELSE <<n>>
    /\ op = "Causes" /\ (args[1] = Nil \/ Leaf(args[1])) => ret = <<>>

\* C15 witness: Causes was asked of a wrapper of a wrapper of an error
\* whose Cause method returns nil.
C15_Witness ==
    /\ op = "Causes" /\ Linked(args[1]) /\ Linked(heap[args[1]].cause)
    /\ NilCause(heap[heap[args[1]].cause].cause)
    /\ ret = <<heap[heap[args[1]].cause].cause>>

----------------------------------------------------------------------------
(* A program that tags errors, some of them with the same name on several  *)
(* nodes or several times in one call, and reads the tags back.             *)

\* The tag lists the program gives to WithTags.
TagArgs ==
    {<<T("x", "1")>>, <<T("x", "2")>>, <<T("y", "1"), T("x", "1")>>,
     <<T("x", "2"), T("x", "1")>>}

\* WithTags(err, tags...); the tag list given is left in args[2].
CallWithTagList(err, tags) ==
    Returns("WithTags", <<err, tags>>, WithTags(heap, adapters, err, tags))

\* Tags(err); the list is left in ret.
CallTags(err) ==
    /\ op = "idle"
    /\ op' = "Tags"
    /\ args' = <<err>>
    /\ ret' = Tags(heap, err)
    /\ calls' = <<>>
    /\ UNCHANGED <<heap, adapters, pc, mutex, local, ch, mem>>

\* LookupTag(err, name); the value is left in ret.
CallLookupTag(err, name) ==
    /\ op = "idle"
    /\ op' = "LookupTag"
    /\ args' = <<err, name>>
    /\ ret' = LookupTag(heap, err, name)
    /\ calls' = <<>>
    /\ UNCHANGED <<heap, adapters, pc, mutex, local, ch, mem>>

NextTags ==
    \/ \E err \in Errs : CallWithMessage(err, "b")
    \/ \E err \in Errs, tags \in TagArgs : CallWithTagList(err, tags)
    \/ \E errs \in ErrLists : CallJoin(errs)
    \/ \E err \in Errs : CallTags(err)
    \/ \E err \in Errs, name \in {"x", "y"} : CallLookupTag(err, name)
    \/ Continue

SpecTags == Init /\ [][NextTags]_vars

----------------------------------------------------------------------------
(* Claims about tags (checked under SpecTags) *)

\* How many times the tag t is in the list tags.
Count(t, tags) == Cardinality({i \in DOMAIN tags : tags[i] = t})

\* How many times the walk from err meets the tag t: on the node itself,
\* below its single-cause link and below each of its causes.
RECURSIVE Met(_, _)
Met(t, err) ==
    LET RECURSIVE sum(_)
        sum(es) == IF es = <<>> THEN 0 ELSE Met(t, es[1]) + sum(Tail(es))
    IN  IF err = Nil THEN 0
        ELSE (IF errorTags(heap[err]) THEN Count(t, heap[err].tags) ELSE 0)
             + (IF errorCause(heap[err]) THEN Met(t, heap[err].cause)
                ELSE IF errorCauses(heap[err]) THEN sum(heap[err].causes)
                ELSE 0)

\* The tags the program uses.
TagSet == UNION {Range(tags) : tags \in TagArgs}

\* C17: Tags(e) holds every tag of every node reachable from e, as many
\* times as the walk meets it, ordered by name and then by value; tags with
\* the same name on different nodes are all there.
C17_TagsKeepsEveryTag ==
    op = "Tags" =>
        /\ \A t \in TagSet : Count(t, ret) = Met(t, args[1])
        /\ Range(ret) \subseteq TagSet
        /\ \A i \in 1..(Len(ret) - 1) :
              tagLess(ret[i], ret[i + 1]) \/ ret[i] = ret[i + 1]

\* C17 witness: Tags(WithTags(Join(WithTags(A, (x,1)), B), (x,2))) is
\* [(x,1), (x,2)].
C17_Witness ==
    /\ op = "Tags" /\ args[1] # Nil
    /\ heap[args[1]].kind = "errorWithTags"
    /\ heap[args[1]].tags = <<T("x", "2")>>
    /\ heap[heap[args[1]].cause].kind = "multiError"
    /\ \E c \in Range(heap[heap[args[1]].cause].causes) :
          heap[c].kind = "errorWithTags" /\ heap[c].tags = <<T("x", "1")>>
    /\ ret = <<T("x", "1"), T("x", "2")>>

\* The nodes reachable from err that carry a tag with the given name.
Carriers(err, name) ==
    {n \in Reach(err) : errorTags(heap[n])
                         /\ \E t \in Range(heap[n].tags) : t.Name = name}

\* The values bound to name on the carriers met first on the paths from
\* err: on err itself if it is a carrier, else below its links.
RECURSIVE Outermost(_, _)
Outermost(err, name) ==
    IF err = Nil THEN {}
    ELSE IF err \in Carriers(err, name)
         THEN {t.Value : t \in {u \in Range(heap[err].tags) : u.Name = name}}
    ELSE IF errorCause(heap[err]) THEN Outermost(heap[err].cause, name)
    ELSE IF errorCauses(heap[err])
         THEN UNION {Outermost(c, name) : c \in Range(heap[err].causes)}
    ELSE {}

\* C18: LookupTag(e, name) is "" when e is nil or no node of e carries a
\* tag with that name; else it is a value bound to name on a carrier with
\* no carrier of the name outside it on the way from e, and the tags of
\* every carrier, shadowed or not, are in Tags(e).
C18_OutermostTagWins ==
    op = "LookupTag" =>
        LET e == args[1]
            name == args[2]
        IN  /\ Carriers(e, name) = {} => ret = ""
            /\ Carriers(e, name) # {} => ret \in Outermost(e, name)
            /\ \A n \in Carriers(e, name) :
                  Range(heap[n].tags) \subseteq Range(Tags(heap, e))

\* C18 witness: x is bound to 2 on the outer node and to 1 on a wrapped
\* cause; LookupTag returns 2 and Tags has both.
C18_Witness ==
    /\ op = "LookupTag" /\ args[2] = "x" /\ args[1] # Nil
    /\ heap[args[1]].kind = "errorWithTags"
    /\ heap[args[1]].tags = <<T("x", "2")>>
    /\ \E n \in Carriers(args[1], "x") : heap[n].tags = <<T("x", "1")>>
    /\ ret = "2"
    /\ Tags(heap, args[1]) = <<T("x", "1"), T("x", "2")>>

\* The tags of the list that are the first of their name in it.
FirstOfName(tags) ==
    {tags[i] : i \in {k \in DOMAIN tags :
                         \A j \in 1..(k - 1) : tags[j].Name # tags[k].Name}}

\* C19 as stated: of several tags with the same name in the list given to
\* one WithTags call, the node keeps the first only.
C19_FirstOccurrenceWins ==
    op = "WithTags" /\ ret # Nil =>
        /\ Range(heap[ret].tags) = FirstOfName(args[2])
        /\ Len(heap[ret].tags) = Cardinality(FirstOfName(args[2]))

\* C19 amended: the node made by WithTags keeps every tag of the list it
\* is given, ordered by name and then by value, also several tags with the
\* same name; and the tags with that name on the nodes below are kept too.
C19_EveryGivenTagIsKept ==
    op = "WithTags" /\ ret # Nil =>
        /\ \A t \in TagSet : Count(t, heap[ret].tags) = Count(t, args[2])
        /\ \A i \in 1..(Len(heap[ret].tags) - 1) :
              tagLess(heap[ret].tags[i], heap[ret].tags[i + 1])
              \/ heap[ret].tags[i] = heap[ret].tags[i + 1]
        /\ \A t \in TagSet :
              Count(t, Tags(heap, ret)) = Count(t, args[2]) + Met(t, args[1])

\* C19 witness: WithTags was given (x,2) and then (x,1) above a node that
\* carries x, and the new node has both.
C19_Witness ==
    /\ op = "WithTags" /\ ret # Nil
    /\ args[2] = <<T("x", "2"), T("x", "1")>>
    /\ heap[ret].tags = <<T("x", "1"), T("x", "2")>>
    /\ Carriers(args[1], "x") # {}

----------------------------------------------------------------------------
(* A program that collects the errors of its tasks with Recv.  The tasks    *)
(* send on the channel ch and one of them closes it.  While Recv ranges     *)
(* over the channel (op = "recvRange") args is the list of the values       *)
(* received so far and local[1].seen is its local list errs.                *)

\* The values of the list for which Adapt may have to build a wrapper.
Adaptable(buf) ==
    Len(SelectSeq(buf, LAMBDA e : e # Nil /\ heap[e].kind \notin InternalKinds))

\* The memory has room for the wrappers of the values of buf and for the
\* node Recv returns.
Room(buf) == Len(heap) + Adaptable(buf) + 1 <= MaxNodes

\* The values Recv has received from the channel since it was called.
Received == IF op = "recvRange" THEN args ELSE <<>>

\* ch <- err in a task.
chanSend(err) ==
    /\ ~ch.closed
    /\ Len(Received) + Len(ch.buf) < MaxRecv
    /\ Room(Append(ch.buf, err))
    /\ ch' = [ch EXCEPT !.buf = Append(@, err)]
    /\ UNCHANGED <<heap, adapters, op, args, ret, calls, pc, mutex, local, mem>>

\* close(ch)
chanClose ==
    /\ ~ch.closed
    /\ ch' = [ch EXCEPT !.closed = TRUE]
    /\ UNCHANGED <<heap, adapters, op, args, ret, calls, pc, mutex, local, mem>>

\* The program makes a new channel once the last one is closed and empty.
chanMake ==
    /\ op = "idle"
    /\ ch.closed /\ ch.buf = <<>>
    /\ ch' = NoChan
    /\ UNCHANGED <<heap, adapters, op, args, ret, calls, pc, mutex, local, mem>>

\* Recv(ch) is called.
RecvCall ==
    /\ op = "idle"
    /\ Room(ch.buf)
    /\ op' = "recvRange"
    /\ args' = <<>>
    /\ ret' = Nil
    /\ calls' = <<>>
    /\ local' = [local EXCEPT ![1].seen = <<>>]
    /\ UNCHANGED <<heap, adapters, pc, mutex, ch, mem>>

\* The range loop of Recv receives the first value of the channel and runs
\* its body.
recvReceive ==
    /\ op = "recvRange"
    /\ ch.buf # <<>>
    /\ LET r == recvNext(heap, adapters, local[1].seen, Head(ch.buf))
       IN  /\ heap' = r.h
           /\ local' = [local EXCEPT ![1].seen = r.errs]
           /\ calls' = calls \o r.calls
    /\ args' = Append(args, Head(ch.buf))
    /\ ch' = [ch EXCEPT !.buf = Tail(@)]
    /\ UNCHANGED <<adapters, op, ret, pc, mutex, mem>>

\* Recv as it would be if it returned as soon as the channel is empty.
recvClosedWhenEmpty ==
    /\ op = "recvRange"
    /\ ch.buf = <<>>
    /\ op' = "Recv"
    /\ LET r == recvReturn(heap, local[1].seen)
       IN  heap' = r.h /\ ret' = r.e
    /\ local' = [local EXCEPT ![1].seen = <<>>]
    /\ UNCHANGED <<adapters, args, calls, pc, mutex, ch, mem>>

\* The channel is closed and empty: the loop ends and Recv returns.
recvClosed ==
    /\ op = "recvRange"
    /\ ch.closed /\ ch.buf = <<>>
    /\ op' = "Recv"
    /\ LET r == recvReturn(heap, local[1].seen)
       IN  heap' = r.h /\ ret' = r.e
    /\ local' = [local EXCEPT ![1].seen = <<>>]
    /\ UNCHANGED <<adapters, args, calls, pc, mutex, ch, mem>>

NextRecv ==
    \/ CallForeign(adaptableError)
    \/ \E a \in AdapterSet : CallRegister(a)
    \/ \E err \in Errs : chanSend(err)
    \/ chanClose
    \/ chanMake
    \/ RecvCall
    \/ recvReceive
    \/ recvClosed
    \/ op # "recvRange" /\ Continue

SpecRecv == Init /\ [][NextRecv]_vars

\* The goroutine that called Recv keeps running.
SpecRecvFair == SpecRecv /\ WF_vars(recvReceive) /\ WF_vars(recvClosed)

----------------------------------------------------------------------------
(* Claims about Recv (checked under SpecRecv and SpecRecvFair) *)

\* C21: Recv returns only at a step where the channel is closed and empty,
\* whatever it has received; a value leaves the channel only when Recv
\* receives it; and once the channel is closed, Recv returns.
C21_RecvReturnsAtClose ==
    /\ [][(op = "recvRange" /\ op' # "recvRange")
              => (ch.closed /\ ch.buf = <<>> /\ op' = "Recv" /\ args' = args)]_vars
    /\ [][(Len(ch'.buf) < Len(ch.buf))
              => /\ op = "recvRange" /\ op' = "recvRange"
                 /\ ch'.buf = Tail(ch.buf)
                 /\ args' = Append(args, Head(ch.buf))]_vars
    /\ (op = "recvRange" /\ ch.closed) ~> (op = "Recv")

\* C21 witness: Recv has returned after it received two values that were
\* in the channel when it was closed.
C21_Witness ==
    /\ op = "Recv" /\ ch.closed /\ ch.buf = <<>> /\ Len(args) >= 2


\* C20: Recv returns what Join returns for the values received, in the
\* order received: nil when none is non-nil, else a multi-cause node whose
\* causes are the adapted non-nil values, the value itself where Join has
\* the value itself and a wrapper equal to Join's where Join has a wrapper.
C20_RecvIsJoinOfTheReceived ==
    op = "Recv" =>
        LET j == Join(heap, adapters, args)
        IN  /\ ret = Nil <=> j.e = Nil
            /\ ret = Nil <=> NonNil(args) = <<>>
            /\ ret # Nil =>
                  /\ heap[ret].kind = j.h[j.e].kind
                  /\ Len(Causes(heap, ret)) = Len(Causes(j.h, j.e))
                  /\ \A i \in 1..Len(Causes(j.h, j.e)) :
                        LET c == Causes(heap, ret)[i]
                            d == Causes(j.h, j.e)[i]
                        IN  /\ IF d \in DOMAIN heap THEN c = d
                               ELSE c # NonNil(args)[i] /\ heap[c] = j.h[d]
                            /\ IsAdaptedFrom(c, NonNil(args)[i])

\* C20 witness: Recv received an error that an adapter recognizes, nil,
\* and then another error, and returned the adapter's wrapper and the
\* other error in that order.
C20_Witness ==
    /\ op = "Recv" /\ ret # Nil /\ Len(args) = 3 /\ args[2] = Nil
    /\ Len(heap[ret].causes) = 2
    /\ heap[ret].causes[1] # args[1]
    /\ heap[heap[ret].causes[1]].cause = args[1]
    /\ heap[ret].causes[2] = args[3]
    /\ args[3] # args[1]

----------------------------------------------------------------------------
(* A program that prints its errors in tree mode: it joins up to            *)
(* MaxChildren errors, multi-cause nodes among them, and formats the result *)
(* with %v or %+v.                                                          *)

MaxChildren == 3

ChildLists == UNION {[1..n -> Errs] : n \in 0..MaxChildren}

\* fmt.Sprintf("%v", err) or, with plus, fmt.Sprintf("%+v", err), for an
\* error of the package; the text is left in ret.
CallFormat(plus, err) ==
    /\ op = "idle"
    /\ err # Nil /\ heap[err].kind \in InternalKinds
    /\ op' = "Format"
    /\ args' = <<err, plus>>
    /\ ret' = format(heap, plus, err)
    /\ calls' = <<>>
    /\ UNCHANGED <<heap, adapters, pc, mutex, local, ch, mem>>

NextFormat ==
    \/ CallNew("a")
    \/ \E err \in Errs : CallWithMessage(err, "b")
    \/ \E errs \in ChildLists : CallJoin(errs)
    \/ \E err \in Errs, plus \in BOOLEAN : CallFormat(plus, err)
    \/ Continue

SpecFormat == Init /\ [][NextFormat]_vars

----------------------------------------------------------------------------
(* Claims about the tree formatter (checked under SpecFormat) *)

\* The text of the line of the node that err renders as, in %v.
NodeText(err) ==
    LET r == inspect(heap, err)
        types == IF r.types = <<>> THEN ""
                 ELSE " (" \o stringsJoin(r.types, " ") \o ")"
        tags == IF r.tags = <<>> THEN ""
                ELSE " [" \o stringsJoin([i \in 1..Len(r.tags) |->
                                             tagString(r.tags[i])], " ") \o "]"
    IN  (IF r.msgs = <<>> THEN "." ELSE stringsJoin(r.msgs, ": "))
        \o types \o tags

\* The lines of the tree below err: the line of the node after the prefix
\* head, and the lines of its children after the prefix tail followed by
\* their connector, those of their own children after tail followed by the
\* marker given for a child that is not the last, four spaces for the last.
RECURSIVE TreeLines(_, _, _, _)
TreeLines(err, head, tail, marker) ==
    LET causes == inspect(heap, err).causes
        n == Len(causes)
        RECURSIVE below(_)
        below(i) ==
            IF i > n THEN <<>>
            ELSE TreeLines(causes[i],
                           tail \o (IF i = n THEN "'-- " ELSE "|-- "),
                           tail \o (IF i = n THEN "    " ELSE marker),
                           marker)
                 \o below(i + 1)
    IN  <<head \o NodeText(err)>> \o below(1)

\* The node err renders as has three children, the first with children.
ThreeBranches(err) ==
    LET causes == inspect(heap, err).causes
    IN  /\ Len(causes) = 3
        /\ \A i \in 1..3 : causes[i] # Nil
        /\ inspect(heap, causes[1]).causes # <<>>
        /\ \A c \in Range(inspect(heap, causes[1]).causes) : c # Nil

\* The box-drawing vertical line and three spaces; the sign ! stands for
\* the character U+2502, which is not the character | of the source.
BoxMarker == "!   "

\* C22 as stated: the three children of a multi-cause node are written
\* after the connectors of a branch, a branch and a last branch, and the
\* lines below a child that is not the last begin with the box-drawing
\* vertical line and three spaces.
C22_BranchesWithBoxMarker ==
    op = "Format" /\ ~args[2] /\ ThreeBranches(args[1]) =>
        ret = stringsJoin(TreeLines(args[1], "", "", BoxMarker), "\n")

\* C22 amended: the same connectors, and the lines below a child that is
\* not the last begin with the character | and three spaces, four spaces
\* below a last child; this for every tree, of three branches or not.
C22_BranchesWithBarMarker ==
    op = "Format" /\ ~args[2] /\ (\A n \in Reach(args[1]) :
                                     Nil \notin Range(heap[n].causes)) =>
        ret = stringsJoin(TreeLines(args[1], "", "", "|   "), "\n")

\* C22 witness: a node with three children, the first of them with two
\* children of its own.
C22_Witness ==
    /\ op = "Format" /\ ~args[2] /\ ThreeBranches(args[1])
    /\ ret = ".\n|-- .\n|   |-- TODO\n|   '-- a\n|-- TODO\n'-- a"

----------------------------------------------------------------------------
(* A program that keeps the slices it gives to WithTypes and WithTags and   *)
(* writes into them afterwards.  A slice is the index of its array in       *)
(* mem.arrays; a node made from a slice has the array that mem.backing      *)
(* gives behind its list, and a write into an array is a write into every   *)
(* list that the array is behind.                                           *)

MaxArrays == 3

\* make and copy: a new array with the elements of the array a.
copyAt(arrays, a) ==
    [arrays |-> Append(arrays, arrays[a]), ref |-> Len(arrays) + 1]

\* makeTags as it would be if it sorted the slice it is given.
makeTagsInPlace(arrays, a) ==
    [arrays |-> [arrays EXCEPT ![a].tags = sortTags(@)], ref |-> a]

\* makeTags on the slice a: copyTags, then sortTags on the copy.
makeTagsAt(arrays, a) ==
    LET c == copyAt(arrays, a)
    IN  [arrays |-> [c.arrays EXCEPT ![c.ref].tags = sortTags(@)],
         ref |-> c.ref]

\* copyTypes as it would be if it returned the slice it is given.
copyTypesInPlace(arrays, a) == [arrays |-> arrays, ref |-> a]

\* copyTypes on the slice a: nil for an empty slice.
copyTypesAt(arrays, a) ==
    IF Len(arrays[a].types) = 0 THEN [arrays |-> arrays, ref |-> Nil]
    ELSE copyAt(arrays, a)

\* The lists the caller makes: an array of tags or an array of type names.
CallerLists ==
    {[of |-> "tags", tags |-> <<T("x", "2"), T("x", "1")>>, types |-> <<>>],
     [of |-> "types", tags |-> <<>>, types |-> <<"Timeout", "Temporary">>]}

\* The caller makes a list.
callerMakes(list) ==
    /\ op = "idle"
    /\ Len(mem.arrays) < MaxArrays
    /\ mem' = [mem EXCEPT !.arrays = Append(@, list),
                          !.caller = @ \cup {Len(mem.arrays) + 1}]
    /\ op' = "make"
    /\ args' = <<Len(mem.arrays) + 1>>
    /\ ret' = Nil
    /\ calls' = <<>>
    /\ UNCHANGED <<heap, adapters, pc, mutex, local, ch>>

\* WithTags(err, tags...) or WithTypes(err, types...) with the slice a of
\* the caller.
CallWithSlice(err, a) ==
    /\ op = "idle"
    /\ a \in mem.caller
    /\ LET tags == mem.arrays[a].of = "tags"
           r == IF tags THEN WithTags(heap, adapters, err, mem.arrays[a].tags)
                ELSE WithTypes(heap, adapters, err, mem.arrays[a].types)
           m == IF err = Nil THEN [arrays |-> mem.arrays, ref |-> Nil]
                ELSE IF tags THEN makeTagsAt(mem.arrays, a)
                ELSE copyTypesAt(mem.arrays, a)
       IN  /\ Len(r.h) <= MaxNodes
           /\ Len(m.arrays) <= MaxArrays
           /\ heap' = r.h
           /\ ret' = r.e
           /\ calls' = r.calls
           /\ op' = IF tags THEN "WithTags" ELSE "WithTypes"
           /\ mem' = [mem EXCEPT !.arrays = m.arrays,
                                 !.backing = IF m.ref = Nil THEN @
                                             ELSE @ \cup {<<r.e, m.ref, a>>}]
    /\ args' = <<err, a>>
    /\ UNCHANGED <<adapters, pc, mutex, local, ch>>

\* The caller writes into the first place of its slice a: the lists of the
\* nodes that have the same array behind them change with it.
callerWrites(a) ==
    /\ op = "idle"
    /\ a \in mem.caller
    /\ LET arr == mem.arrays[a]
           written == IF arr.of = "tags"
                      THEN [arr EXCEPT !.tags[1] = T("y", "2")]
                      ELSE [arr EXCEPT !.types[1] = "x"]
           shares(n) == \E b \in mem.backing : b[1] = n /\ b[2] = a
       IN  /\ written # arr
           /\ mem' = [mem EXCEPT !.arrays[a] = written]
           /\ heap' = [n \in DOMAIN heap |->
                          IF ~shares(n) THEN heap[n]
                          ELSE IF arr.of = "tags"
                               THEN [heap[n] EXCEPT !.tags = written.tags]
                               ELSE [heap[n] EXCEPT !.types = written.types]]
    /\ op' = "write"
    /\ args' = <<a>>
    /\ ret' = Nil
    /\ calls' = <<>>
    /\ UNCHANGED <<adapters, pc, mutex, local, ch>>

NextSlices ==
    \/ \E list \in CallerLists : callerMakes(list)
    \/ \E err \in Errs, a \in 1..MaxArrays : CallWithSlice(err, a)
    \/ \E a \in 1..MaxArrays : callerWrites(a)
    \/ \E err \in Errs : CallWithMessage(err, "b")
    \/ \E err \in Errs : CallTags(err)
    \/ \E err \in Errs : CallTypes(err)
    \/ Continue

SpecSlices == Init /\ [][NextSlices]_vars

----------------------------------------------------------------------------
(* Claims about the nodes and the slices (checked under SpecSlices) *)

\* C23: no step of a builder, of a consumer or of the caller changes a node
\* that exists, and no step but a write of the caller changes a list of the
\* caller: WithTags sorts a copy, and the nodes of WithTypes and WithTags
\* have arrays of their own behind their lists.
C23_NodesAndListsAreKept ==
    [][/\ \A n \in DOMAIN heap : n \in DOMAIN heap' /\ heap'[n] = heap[n]
       /\ op' # "write" =>
             \A a \in mem.caller : mem'.arrays[a] = mem.arrays[a]]_vars

\* C23 witness: the caller has written into a list that it had given to
\* WithTags out of order, and the node still has the sorted tags it was
\* built with.
C23_Witness ==
    /\ op = "write"
    /\ \E b \in mem.backing :
          /\ b[3] = args[1] /\ b[2] # b[3]
          /\ mem.arrays[b[3]].tags = <<T("y", "2"), T("x", "1")>>
          /\ heap[b[1]].tags = <<T("x", "1"), T("x", "2")>>

----------------------------------------------------------------------------
(* Claims about the cause relation (checked under SpecSnapshot) *)

\* The nodes that the node n links to: its non-nil cause and its causes.
Links(n) ==
    (IF errorCause(heap[n]) /\ heap[n].cause # Nil THEN {heap[n].cause} ELSE {})
    \cup (IF errorCauses(heap[n]) THEN Range(heap[n].causes) \ {Nil} ELSE {})

----------------------------------------------------------------------------
(* Claims about the error string (checked under SpecValue) *)

\* C25 as stated: the error a builder returns, when it is not nil, has a
\* non-empty error string.
C25_ErrorStringIsNotEmpty ==
    op # "idle" /\ ret # Nil => Error(heap, ret) # ""

----------------------------------------------------------------------------
(* The adapters of ioerrors, neterrors and twirperrors *)

\* io.EOF: an error value of the standard library, with no method but Error.
ioEOF == [ZeroNode EXCEPT !.kind = "ioEOF", !.msg = "EOF"]

\* *net.ParseError.
netParseError == [ZeroNode EXCEPT !.kind = "netParseError", !.msg = "invalid"]

\* *net.OpError{Op: o, Err: err}: msg is Op; Timeout and Temporary answer
\* what err answers, timeouts says whether err is a timeout.
netOpError(o, timeouts) ==
    [ZeroNode EXCEPT !.kind = "netOpError", !.msg = o,
                     !.predTrue = IF timeouts THEN {"Temporary", "Timeout"}
                                  ELSE {},
                     !.predFalse = IF timeouts THEN {}
                                   ELSE {"Temporary", "Timeout"}]

\* twirp.NewError(twirp.Internal, ""): a twirp.Error with no cause.
twirpNewError == [ZeroNode EXCEPT !.kind = "twerr", !.msg = "twirp error internal: "]

\* twirp.InternalErrorWith(cause): a twirp.Error of code Internal that has a
\* Cause method.
twirpWrappedErr(cause) ==
    [ZeroNode EXCEPT !.kind = "wrappedErr", !.msg = "twirp error internal: ",
                     !.hasCause = TRUE, !.cause = cause]

eof(cause) ==
    [ZeroNode EXCEPT !.kind = "eof", !.hasCause = TRUE, !.cause = cause,
                     !.predTrue = {"EOF"}]

parseError(cause) ==
    [ZeroNode EXCEPT !.kind = "parseError", !.hasCause = TRUE, !.cause = cause,
                     !.predTrue = {"Validation"}]

\* opError: Temporary and Timeout are those of its cause, Unreachable says
\* whether Op is dial or write.
opError(h, cause) ==
    LET own == IF h[cause].msg \in {"dial", "write"} THEN {"Unreachable"} ELSE {}
    IN  [ZeroNode EXCEPT !.kind = "opError", !.hasCause = TRUE, !.cause = cause,
                         !.predTrue = h[cause].predTrue \cup own,
                         !.predFalse = h[cause].predFalse
                                       \cup ({"Unreachable"} \ own)]

Recognized(h, n) == [h |-> Append(h, n), e |-> Len(h) + 1, ok |-> TRUE]

NotRecognized(h, err) == [h |-> h, e |-> err, ok |-> FALSE]

\* ioerrors.Adapt: a switch on the error values of package io.
ioerrorsAdapt(h, err) ==
    IF err # Nil /\ h[err].kind = "ioEOF" THEN Recognized(h, eof(err))
    ELSE NotRecognized(h, err)

\* neterrors.Adapt: a switch on the error types of package net.
neterrorsAdapt(h, err) ==
    IF err # Nil /\ h[err].kind = "netParseError"
    THEN Recognized(h, parseError(err))
    ELSE IF err # Nil /\ h[err].kind = "netOpError"
    THEN Recognized(h, opError(h, err))
    ELSE NotRecognized(h, err)

\* twirperrors.Adapt: a type assertion to twirp.Error.
twirperrorsAdapt(h, err) ==
    IF err # Nil /\ h[err].kind \in {"twerr", "wrappedErr"}
    THEN Recognized(h, twirpError(err))
    ELSE NotRecognized(h, err)

\* The error values the program gives to the adapters.
ForeignErrors ==
    {ioEOF, netParseError, netOpError("read", TRUE), netOpError("dial", FALSE),
     twirpNewError, timeout}

\* a.Adapt(err) for the adapter of package name: the error returned is left
\* in ret, and calls holds the package when the error was recognized.
CallAdapter(name, err) ==
    LET r == CASE name = "ioerrors" -> ioerrorsAdapt(heap, err)
               [] name = "neterrors" -> neterrorsAdapt(heap, err)
               [] name = "twirperrors" -> twirperrorsAdapt(heap, err)
    IN  Returns(name, <<err>>,
                [h |-> r.h, e |-> r.e,
                 calls |-> IF r.ok THEN <<name>> ELSE <<>>])

\* twirp.InternalErrorWith(err) on a timeout.
CallInternalErrorWith(err) ==
    /\ err # Nil /\ heap[err].kind = "timeout"
    /\ CallForeign(twirpWrappedErr(err))

NextAdapters ==
    \/ CallNew("a")
    \/ \E n \in ForeignErrors : CallForeign(n)
    \/ \E err \in Errs : CallInternalErrorWith(err)
    \/ \E name \in {"ioerrors", "neterrors", "twirperrors"}, err \in Errs \ {Nil} :
          CallAdapter(name, err)
    \/ Continue

SpecAdapters == Init /\ [][NextAdapters]_vars

----------------------------------------------------------------------------
(* Claims about the adapters (checked under SpecAdapters) *)

\* C26 as stated: an adapter returns the error it was given when it does not
\* recognize it; when it recognizes it, the root cause of the wrapper it
\* returns is the error it was given, and Is holds of the wrapper for every
\* name in the wrapper's types.
C26_AdaptersWrapWhatTheyRecognize ==
    op \in {"ioerrors", "neterrors", "twirperrors"} =>
        IF calls = <<>> THEN ret = args[1]
        ELSE /\ Cause(heap, ret) = args[1]
             /\ \A typ \in Range(Types(heap, ret)) : Is(typ, heap, ret)

----------------------------------------------------------------------------
(* Claims about the collapse of a chain (checked under SpecSnapshot) *)

\* The chain of err: err and the nodes below it along the single-cause
\* links, down to the first multi-cause node, a nil cause or a leaf.
RECURSIVE ChainFrom(_)
ChainFrom(err) ==
    IF err = Nil THEN <<>>
    ELSE <<err>> \o (IF ~errorCauses(heap[err]) /\ errorCause(heap[err])
                     THEN ChainFrom(heap[err].cause) ELSE <<>>)

\* What the node n says on the line of its chain: its own message when it
\* has one, its error string when it is a leaf of a type without messages.
Says(n) ==
    IF errorMessage(heap[n])
    THEN IF heap[n].msg # "" THEN <<heap[n].msg>> ELSE <<>>
    ELSE IF ~errorCause(heap[n]) /\ ~errorCauses(heap[n])
    THEN <<Error(heap, n)>>
    ELSE <<>>

RECURSIVE SaidBy(_)
SaidBy(chain) ==
    IF chain = <<>> THEN <<>> ELSE Says(chain[1]) \o SaidBy(Tail(chain))

\* The causes of the multi-cause node that ends the chain of err, if one
\* does.
ChildrenOf(err) ==
    LET chain == ChainFrom(err)
        end == chain[Len(chain)]
    IN  IF errorCauses(heap[end]) THEN heap[end].causes ELSE <<>>

\* The Value v is the collapse of the chain of err, and its Causes are the
\* collapses of the chains of the children, in order.
RECURSIVE Collapsed(_, _)
Collapsed(v, err) ==
    /\ v.Message = stringsJoin(SaidBy(ChainFrom(err)), ": ")
    /\ Len(v.Causes) = Len(ChildrenOf(err))
    /\ \A i \in 1..Len(v.Causes) : Collapsed(v.Causes[i], ChildrenOf(err)[i])

\* C27: the Value of a non-nil error has the messages of its chain joined
\* by ": " from the outside in, a leaf without a message gives its error
\* string once, a node with a message never gives its error string, and the
\* causes of the multi-cause node that ends the chain are the Causes, in
\* order, each collapsed the same way.
C27_ChainIsCollapsed ==
    op = "Receive" /\ args[1] # Nil => Collapsed(args[2], args[1])

\* The Value of a Join over TODO and a wrapper of a timeout: two Causes, the
\* second the collapse of a message and a leaf without one.
C27_Witness ==
    /\ op = "Receive" /\ args[1] # Nil
    /\ heap[args[1]].kind = "multiError"
    /\ Len(args[2].Causes) = 2
    /\ args[2].Causes[1].Message = "TODO"
    /\ args[2].Causes[2].Message = "b: timeout"

----------------------------------------------------------------------------
(* A program that formats trees whose messages have more than one line *)

NextIndent ==
    \/ CallNew("a\nc")
    \/ \E err \in Errs : CallWithMessage(err, "b")
    \/ \E errs \in ChildLists : CallJoin(errs)
    \/ \E err \in Errs, plus \in BOOLEAN : CallFormat(plus, err)
    \/ Continue

SpecIndent == Init /\ [][NextIndent]_vars

----------------------------------------------------------------------------
(* Claims about the indent stack (checked under SpecIndent) *)

\* The markers of the indent, four characters each.
Markers == {"|-- ", "'-- ", "|   ", "    "}

\* How many markers the line starts with.
RECURSIVE CountMarkers(_)
CountMarkers(line) ==
    IF Len(line) >= 4 /\ SubSeq(line, 1, 4) \in Markers
    THEN 1 + CountMarkers(SubSeq(line, 5, Len(line)))
    ELSE 0

\* How many lines the formatter starts for the node that err renders as:
\* the lines of its text and, with the '+' flag, for each stack trace of the
\* chain two lines a frame and the line it starts after the frames, and one
\* more line between two stack traces.
LinesOf(err, plus) ==
    LET chain == ChainFrom(err)
        text == stringsJoin(SaidBy(chain), ": ")
        traces == SelectSeq(chain, LAMBDA n : Len(stackTrace(heap[n])) # 0)
        RECURSIVE frames(_)
        frames(ns) == IF ns = <<>> THEN 0
                      ELSE 2 * Len(stackTrace(heap[ns[1]])) + 1 + frames(Tail(ns))
    IN  Len(stringsSplit(text))
        + (IF plus /\ traces # <<>> THEN frames(traces) + Len(traces) - 1 ELSE 0)

\* The depth of the node of every line of the tree below err, err being at
\* depth d.
RECURSIVE LineDepths(_, _, _)
LineDepths(err, d, plus) ==
    LET kids == ChildrenOf(err)
        RECURSIVE each(_)
        each(i) == IF i > Len(kids) THEN <<>>
                   ELSE LineDepths(kids[i], d + 1, plus) \o each(i + 1)
    IN  [i \in 1..LinesOf(err, plus) |-> d] \o each(1)

\* C28: when the formatter is done its indent stack is empty again, and
\* every line it wrote for a node at depth d starts with exactly d markers,
\* the continuation lines of a message and the lines of the stack traces
\* too; the lines of the root start with none.
C28_OneMarkerALevel ==
    op = "Format" =>
        LET f == formatterFormat([out |-> "", symbols |-> <<>>, plus |-> args[2]],
                                 [index |-> 0, length |-> 1,
                                  needNewLine |-> FALSE], heap, args[1])
            lines == stringsSplit(ret)
            depths == LineDepths(args[1], 0, args[2])
        IN  /\ f.symbols = <<>>
            /\ Len(lines) = Len(depths)
            /\ \A i \in 1..Len(lines) : CountMarkers(lines[i]) = depths[i]

\* A tree of depth two whose first leaf has a message of two lines: the
\* second line of the message is written below the first, after the
\* continuation markers of the two levels.
C28_Witness ==
    /\ op = "Format" /\ ~args[2]
    /\ ret = ".\n|-- .\n|   |-- a\n|   |   c\n|   '-- TODO\n'-- TODO"

----------------------------------------------------------------------------
(* A program that sends the Value of errors that have nothing to show *)

NextRoundTrip ==
    \/ CallNew("")
    \/ CallForeign(errorWithNilCause)
    \/ \E err \in Errs : CallWithMessage(err, "")
    \/ \E err \in Errs : CallWithTypes(err, <<>>)
    \/ \E errs \in ErrLists : CallJoin(errs)
    \/ \E err \in Errs : CallReceive(err)
    \/ Continue

SpecRoundTrip == Init /\ [][NextRoundTrip]_vars

----------------------------------------------------------------------------
(* Claims about the Value of a non-nil error (checked under SpecRoundTrip) *)

\* C29 as stated: the Value of a non-nil error is not the zero Value, and
\* the error rebuilt from it is not nil.
C29_NonNilStaysNonNil ==
    op = "Receive" /\ args[1] # Nil => ~IsNil(args[2]) /\ ret.e # Nil

----------------------------------------------------------------------------
(* The concurrent program under a fair scheduler: a goroutine that can     *)
(* take its next step is not left waiting forever.                         *)

\* The next step of the call that goroutine p is in.
Step(p) ==
    \/ registerTest(p) \/ registerLock(p) \/ registerLocked(p)
    \/ registerAppend(p) \/ registerAssign(p) \/ registerUnlock(p)
    \/ adaptTest(p) \/ adaptRLock(p) \/ adaptRange(p) \/ adaptLoop(p)
    \/ adaptRUnlock(p) \/ Return(p)

SpecConcFair == SpecConc /\ \A p \in Procs : WF_vars(Step(p))

----------------------------------------------------------------------------
(* Claims about the termination of Register and Adapt (checked under       *)
(* SpecConcFair)                                                           *)

\* C30: a goroutine that is not in a call holds no lock, and every call of
\* Register and of Adapt returns, whatever the other goroutines do.
C30_EveryCallReturns ==
    /\ [](\A p \in Procs :
             pc[p] \in {"idle", "done"} =>
                 p \notin mutex.readers /\ mutex.writer # p)
    /\ \A p \in Procs : (pc[p] # "idle") ~> (pc[p] = "done")

\* A Register waits for the lock that an Adapt holds, and another Adapt
\* waits behind it.
C30_Witness ==
    \E p, q, r \in Procs :
        /\ pc[p] = "Locking" /\ p \in mutex.waiting
        /\ q \in mutex.readers
        /\ pc[r] = "RLock"

====
